---- MODULE Spec2Model ----
(***************************************************************************)
(* Random-walk simulation server (JelsikJozef/Posko).                      *)
(*                                                                         *)
(* The model covers the server's control plane (server_ipc.c client        *)
(* threads, server_context.c), the simulation manager thread               *)
(* (sim_manager.c), the worker pool (worker_pool.c), the aggregate store   *)
(* (results.c), the trajectory engine (random_walk.c), the persistence     *)
(* operations (persist.c) and the framed socket writes (protocol.c).       *)
(*                                                                         *)
(* Atomicity.  One action is one critical section or one run of            *)
(* thread-local statements that ends in a shared access.  A request        *)
(* handler is two actions where the code reads the shared state, decides,  *)
(* and only then mutates: the first action (Recv...) reads the header and  *)
(* performs the capability / state / parameter checks, the second (Do...)  *)
(* performs the mutation and sends the reply.                              *)
(***************************************************************************)
EXTENDS Integers, Sequences, FiniteSets, TLC

(***************************************************************************)
(* Program constants                                                       *)
(***************************************************************************)
RW_MSG_WELCOME == 2
RW_MSG_SNAPSHOT_BEGIN == 6
RW_MSG_SNAPSHOT_CHUNK == 7
RW_MSG_SNAPSHOT_END == 8
RW_MSG_STOP_SIM == 9
RW_MSG_QUERY_STATUS == 11
RW_MSG_STATUS == 12
RW_MSG_CREATE_SIM == 13
RW_MSG_LOAD_WORLD == 14
RW_MSG_START_SIM == 15
RW_MSG_REQUEST_SNAPSHOT == 16
RW_MSG_RESTART_SIM == 17
RW_MSG_LOAD_RESULTS == 18
RW_MSG_SAVE_RESULTS == 19
RW_MSG_QUIT == 20
RW_MSG_ACK == 21
RW_MSG_ERROR == 255
RW_MSG_PROGRESS == 5
RW_MSG_END == 10

RW_WIRE_SIM_LOBBY == 1
RW_WIRE_SIM_RUNNING == 2
RW_WIRE_SIM_FINISHED == 3

WORLD_WRAP == 1
WORLD_OBSTACLES == 2

\* worker_pool_init raises every smaller capacity to this one
MinQueueCap == 16

(***************************************************************************)
(* Bounds of the model                                                     *)
(***************************************************************************)
\* RESTART_SIM asks for 0..MaxReps replications
MaxReps == 2
\* worker threads per pool (sim_manager_init's nthreads)
NThreads == 2
\* simulation-manager threads that may exist at once
MaxSimThreads == 1
\* requests the server reads in one behaviour
MaxRequests == 3

Clients == {1, 2}          \* the connection handles (fds) of the two clients
\* slots of ctx->clients.fds (SERVER_MAX_CLIENTS, scaled down)
NSlots == 2
NoOwner == -1              \* owner_fd when no owner is set
SimIds == 1..MaxSimThreads
WorkerIds == 1..NThreads
Paths == {"f", "g"}        \* the file names a request may carry
NoFile == [absent |-> TRUE]

\* the environments of a run: one client against an NThreads-worker server, or
\* every client against a one-worker server with a shorter request budget
Envs ==
  { [fds |-> {1}, nthreads |-> NThreads, requests |-> MaxRequests],
    [fds |-> Clients, nthreads |-> 1, requests |-> MaxRequests - 1] }

(***************************************************************************)
(* Move probabilities are held in permille.                                *)
(***************************************************************************)
Uniform == [p_up |-> 250, p_down |-> 250, p_left |-> 250, p_right |-> 250]
UpDown == [p_up |-> 500, p_down |-> 500, p_left |-> 0, p_right |-> 0]
BadSum == [p_up |-> 500, p_down |-> 500, p_left |-> 500, p_right |-> 0]

\* the random draws r of rw_rng_next01, in permille of [0,1)
Draws == {0, 300, 600, 900}

\* CREATE_SIM payloads (rw_create_sim_t)
CreateReqs ==
  { [world_kind |-> WORLD_WRAP, width |-> 2, height |-> 1, probs |-> Uniform,
     k_max_steps |-> 1, total_reps |-> 1, multi_user |-> 0],
    [world_kind |-> WORLD_OBSTACLES, width |-> 1, height |-> 1, probs |-> UpDown,
     k_max_steps |-> 2, total_reps |-> 2, multi_user |-> 1],
    [world_kind |-> WORLD_WRAP, width |-> 0, height |-> 1, probs |-> BadSum,
     k_max_steps |-> 1, total_reps |-> 1, multi_user |-> 0],
    [world_kind |-> WORLD_WRAP, width |-> 2, height |-> 1, probs |-> BadSum,
     k_max_steps |-> 1, total_reps |-> 1, multi_user |-> 0] }

Zeros(n) == [i \in 1..n |-> 0]

\* an RWRES file that exists before the server starts: a 2x1 obstacle world
\* (cell 1 blocked) saved with total_reps = 1 and an empty aggregate
InitFile ==
  [absent |-> FALSE, world_kind |-> WORLD_OBSTACLES, width |-> 2, height |-> 1,
   probs |-> Uniform, k_max_steps |-> 1, total_reps |-> 1,
   obstacles |-> <<0, 1>>, trials |-> Zeros(2), sum_steps |-> Zeros(2),
   success_leq_k |-> Zeros(2)]

VARIABLES
  sim_state,     \* ctx->sim_state
  cfg,           \* ctx->world_kind, world_size, probs, k_max_steps, total_reps
  current_rep,   \* ctx->current_rep
  multi_user,    \* ctx->multi_user
  owner_fd,      \* ctx->owner_fd
  env,           \* the run's environment: client fds, nthreads, request budget
  clients,       \* ctx->clients.fds: the slot array, -1 in a free slot
  joined,        \* the registered fds in the order of their registration
  world,         \* g_world: kind, size, obstacles (cell i of the code is i+1 here)
  results,       \* g_results: cell_count, trials, sum_steps, success_leq_k
  sm,            \* g_sm: running, stop_requested
  sim,           \* the simulation-manager threads: pc and locals of each
  pool,          \* sm->pool: q, in_flight, stop, nthreads, q_cap, probs, max_steps
  workers,       \* the worker threads: pc and popped job of each
  fs,            \* the files the persistence operations read and write
  pc,            \* position of each client thread
  req,           \* the request a client thread is handling
  nreq,          \* requests the server has read so far
  out,           \* the socket writes of the last step, and the request answered
  wire,          \* per socket, the chunks written to it so far (header, payload)
  wthr,          \* the threads inside rw_send_msg: position and send index
  clients_mtx,   \* holder of ctx->clients_mtx, 0 when free
  snap,          \* one snapshot stream: the sender's position, the socket, the assembler
  sid,           \* next_snapshot_id's counter and the handler threads calling it
  slow,          \* the broadcasts towards a client that does not read its socket
  disp,          \* the client's dispatcher: its fields, its reader, its callers
  conn,          \* connections joining, failing and being written to by a broadcast
  menu,          \* the client's restart-from-results flow and the server it talks to
  walk,          \* one call of random_walk_run: its inputs and its trajectory
  gen,           \* one call of world_generate_obstacles: its inputs and its map
  lk,            \* the two mutexes of the context and the threads that take them
  ring,          \* the worker pool's job queue as the ring buffer it is
  iso,           \* two snapshot broadcasts and the frames each client receives
  launch         \* the start of a run: the handler's checks and the threads created

\* the state of the parts studied on their own: connection set-up and broadcast
\* delivery, the client's menu, one random walk, one obstacle generation
more == <<lk, ring, iso, launch>>
aside == <<conn, menu, walk, gen, more>>

srv == <<sim_state, cfg, current_rep, multi_user, world, results, sm>>
\* what the control-plane actions leave alone
fixed == <<env, wire, wthr, clients_mtx, snap, sid, slow, disp, aside>>
\* what the socket-write actions leave alone
ctl == <<sim_state, cfg, current_rep, multi_user, owner_fd, env, clients, joined, world,
         results, sm, sim, pool, workers, fs, pc, req, nreq, out>>
vars == <<ctl, wire, wthr, clients_mtx, snap, sid, slow, disp, aside>>

(***************************************************************************)
(* world.c                                                                 *)
(***************************************************************************)
world_cell_count(w) == w.width * w.height

world_init(kind, width, height) ==
  [kind |-> kind, width |-> width, height |-> height,
   obstacles |-> Zeros(width * height)]

world_in_bounds(w, x, y) == x >= 0 /\ y >= 0 /\ x < w.width /\ y < w.height

world_index(w, x, y) == y * w.width + x

world_is_obstacle_idx(w, idx) ==
  IF idx >= world_cell_count(w) THEN TRUE
  ELSE IF idx + 1 \in DOMAIN w.obstacles THEN w.obstacles[idx + 1] # 0 ELSE TRUE

world_is_obstacle_xy(w, x, y) ==
  IF ~world_in_bounds(w, x, y) THEN TRUE
  ELSE world_is_obstacle_idx(w, world_index(w, x, y))

\* C's % truncates toward zero; the code then adds W to a negative remainder
world_wrap_pos(w, p) ==
  LET wx == IF w.width > 0
            THEN (IF p.x >= 0 THEN p.x % w.width
                  ELSE (IF (-p.x) % w.width = 0 THEN 0
                        ELSE w.width - ((-p.x) % w.width)))
            ELSE p.x
      wy == IF w.height > 0
            THEN (IF p.y >= 0 THEN p.y % w.height
                  ELSE (IF (-p.y) % w.height = 0 THEN 0
                        ELSE w.height - ((-p.y) % w.height)))
            ELSE p.y
  IN [x |-> wx, y |-> wy]

(***************************************************************************)
(* results.c                                                               *)
(***************************************************************************)
results_init(width, height) ==
  [cell_count |-> width * height, trials |-> Zeros(width * height),
   sum_steps |-> Zeros(width * height), success_leq_k |-> Zeros(width * height)]

results_clear(r) ==
  [r EXCEPT !.trials = Zeros(r.cell_count), !.sum_steps = Zeros(r.cell_count),
            !.success_leq_k = Zeros(r.cell_count)]

results_update(r, idx, steps, reached_origin, success_leq_k) ==
  IF idx >= r.cell_count THEN r
  ELSE [r EXCEPT !.trials[idx + 1] = @ + 1,
                 !.sum_steps[idx + 1] = IF reached_origin THEN @ + steps ELSE @,
                 !.success_leq_k[idx + 1] = IF success_leq_k THEN @ + 1 ELSE @]

(***************************************************************************)
(* random_walk.c                                                           *)
(***************************************************************************)
\* one iteration of the step loop: the position after draw r
walk_step(w, p, probs, r) ==
  LET c1 == probs.p_up
      c2 == c1 + probs.p_down
      c3 == c2 + probs.p_left
      c4 == c3 + probs.p_right
      rr == (r * c4) \div 1000
      nxt == IF rr < c1 THEN [x |-> p.x, y |-> p.y - 1]
             ELSE IF rr < c2 THEN [x |-> p.x, y |-> p.y + 1]
             ELSE IF rr < c3 THEN [x |-> p.x - 1, y |-> p.y]
             ELSE [x |-> p.x + 1, y |-> p.y]
      wrapped == IF w.kind = WORLD_WRAP THEN world_wrap_pos(w, nxt) ELSE nxt
  IN IF ~world_in_bounds(w, wrapped.x, wrapped.y) THEN p
     ELSE IF world_is_obstacle_xy(w, wrapped.x, wrapped.y) THEN p
     ELSE wrapped

RECURSIVE walk_from(_, _, _, _, _, _)
walk_from(w, p, probs, max_steps, step, rs) ==
  IF step > max_steps
  THEN [steps |-> max_steps, reached_origin |-> FALSE, success_leq_k |-> FALSE]
  ELSE LET q == walk_step(w, p, probs, rs[step])
       IN IF q.x = 0 /\ q.y = 0
          THEN [steps |-> step, reached_origin |-> TRUE, success_leq_k |-> TRUE]
          ELSE walk_from(w, q, probs, max_steps, step + 1, rs)

\* rs is the sequence of draws the thread's generator yields
random_walk_run(w, start, probs, max_steps, rs) ==
  IF ~world_in_bounds(w, start.x, start.y)
  THEN [steps |-> 0, reached_origin |-> FALSE, success_leq_k |-> FALSE]
  ELSE IF world_is_obstacle_xy(w, start.x, start.y)
  THEN [steps |-> 0, reached_origin |-> FALSE, success_leq_k |-> FALSE]
  ELSE IF start.x = 0 /\ start.y = 0
  THEN [steps |-> 0, reached_origin |-> TRUE, success_leq_k |-> TRUE]
  ELSE IF probs.p_up + probs.p_down + probs.p_left + probs.p_right <= 0
  THEN [steps |-> max_steps, reached_origin |-> FALSE, success_leq_k |-> FALSE]
  ELSE walk_from(w, start, probs, max_steps, 1, rs)

(***************************************************************************)
(* server_context.c                                                        *)
(***************************************************************************)
server_context_client_can_control(owner, client_fd) ==
  IF owner < 0 THEN TRUE ELSE client_fd = owner



(***************************************************************************)
(* world.c: obstacle generation                                            *)
(***************************************************************************)
\* a uint32_t is held as two 16-bit halves, h * 65536 + l
U32(h, l) == [h |-> h, l |-> l]

\* lcg_next: state * 1103515245 + 12345 + 1013904223 in 32-bit arithmetic
lcg_next(st) ==
  LET p0 == st.l * 20077
      hi == ((p0 \div 65536) + ((st.h * 20077) % 65536) + ((st.l * 16838) % 65536)) % 65536
      lo == (p0 % 65536) + 9112
  IN U32((hi + 15471 + (lo \div 65536)) % 65536, lo % 65536)

\* state % 100u
u32_mod100(st) == (((st.h % 100) * 36) + (st.l % 100)) % 100

RECURSIVE lcg_fill(_, _, _, _)
\* for (i = 0; i < n; i++) obstacles[i] = (lcg_next(&state) % 100u < percent)
lcg_fill(n, i, st, percent) ==
  IF i >= n THEN <<>>
  ELSE LET s1 == lcg_next(st)
       IN <<IF u32_mod100(s1) < percent THEN 1 ELSE 0>> \o lcg_fill(n, i + 1, s1, percent)

kNeighborDirs == {<<1, 0>>, <<-1, 0>>, <<0, 1>>, <<0, -1>>}

\* the free in-bounds neighbours of cell idx
FreeNeighbours(w, idx) ==
  LET x == idx % w.width
      y == idx \div w.width
  IN {world_index(w, x + d[1], y + d[2]) : d \in
        {e \in kNeighborDirs : /\ world_in_bounds(w, x + e[1], y + e[2])
                               /\ w.obstacles[world_index(w, x + e[1], y + e[2]) + 1] = 0}}

RECURSIVE Flood(_, _)
Flood(w, R) ==
  LET N == R \cup UNION {FreeNeighbours(w, i) : i \in R}
  IN IF N = R THEN R ELSE Flood(w, N)

\* world_mark_reachable: the cells the flood fill from the origin marks
world_mark_reachable(w) == IF w.obstacles[1] # 0 THEN {} ELSE Flood(w, {0})

\* world_carve_path_to_origin: clear idx, then the row to x = 0, then the column
world_carve_path_to_origin(w, idx) ==
  LET x == idx % w.width
      y == idx \div w.width
      cleared == {idx} \cup {world_index(w, xx, y) : xx \in 0..(x - 1)}
                       \cup {world_index(w, 0, yy) : yy \in 0..(y - 1)}
  IN [w EXCEPT !.obstacles = [j \in DOMAIN @ |-> IF (j - 1) \in cleared THEN 0 ELSE @[j]]]

RECURSIVE world_enforce_origin_reachability(_)
world_enforce_origin_reachability(w) ==
  LET R == world_mark_reachable(w)
      bad == {i \in 0..(world_cell_count(w) - 1) : w.obstacles[i + 1] = 0 /\ i \notin R}
  IN IF bad = {} THEN w
     ELSE world_enforce_origin_reachability(
            world_carve_path_to_origin(w, CHOOSE i \in bad : \A j \in bad : i <= j))

world_generate_obstacles(w, percent, seed) ==
  LET pct == IF percent < 0 THEN 0 ELSE IF percent > 100 THEN 100 ELSE percent
      n == world_cell_count(w)
      filled == lcg_fill(n, 0, seed, pct)
  IN world_enforce_origin_reachability(
       [w EXCEPT !.obstacles = [j \in 1..n |-> IF j = 1 THEN 0 ELSE filled[j]]])

\* the CREATE_SIM handler's call: world_generate_obstacles(g_world, 10, 12345)
CreatePercent == 10
CreateSeed == U32(0, 12345)

(***************************************************************************)
(* server_context.c: the client registry                                   *)
(***************************************************************************)
FreeSlots(cl) == {i \in 1..NSlots : cl[i] = -1}
Registered(cl) == {cl[i] : i \in 1..NSlots} \ {-1}

\* server_context_add_client: the first free slot takes the fd
server_context_add_client(cl, fd) ==
  IF FreeSlots(cl) = {} THEN cl
  ELSE [cl EXCEPT ![CHOOSE i \in FreeSlots(cl) : \A j \in FreeSlots(cl) : i <= j] = fd]

\* server_context_remove_client: the slot that holds the fd is freed
server_context_remove_client(cl, fd) ==
  IF \E i \in 1..NSlots : cl[i] = fd
  THEN [cl EXCEPT ![CHOOSE i \in 1..NSlots :
                      cl[i] = fd /\ \A j \in 1..NSlots : cl[j] = fd => i <= j] = -1]
  ELSE cl

RECURSIVE SlotFds(_, _)
\* server_context_for_each_client: the fds in slot order
SlotFds(cl, i) ==
  IF i > NSlots THEN <<>>
  ELSE (IF cl[i] = -1 THEN <<>> ELSE <<cl[i]>>) \o SlotFds(cl, i + 1)

Without(seq, fd) == SelectSeq(seq, LAMBDA e : e # fd)

(***************************************************************************)
(* Frames and initial state                                                *)
(***************************************************************************)
Frame(fd, type, a, b) == [fd |-> fd, type |-> type, a |-> a, b |-> b]
\* send_error / send_ack: one ERROR(code) or ACK(request_type, status) frame
send_error(fd, code) == <<Frame(fd, RW_MSG_ERROR, code, 0)>>
\* a send_ack that writes nothing: the variant C4 is tested against
send_ack_none(fd, req_type, status) == <<>>
send_ack(fd, req_type, status) == <<Frame(fd, RW_MSG_ACK, req_type, status)>>

\* a step that reads no request and writes to no socket
Quiet == [by |-> 0, re |-> 0, frames |-> <<>>]
\* a step of client thread c that ends the handling of a request of type re
Reply(c, re, frames) == [by |-> c, re |-> re, frames |-> frames]

NoReq == [type |-> 0]
\* the threads that write to client sockets: the handler threads of fd 1 and
\* fd 2 and the simulation thread
Writers == {1, 2, 3}
\* stop_acked records that a STOP_SIM was acknowledged for the thread's run
NoSim == [pc |-> "none", rep |-> 0, cur |-> 0, W |-> 0, H |-> 0, stop_acked |-> FALSE]
NoWorker == [pc |-> "none", job |-> 0]
ZeroProbs == [p_up |-> 0, p_down |-> 0, p_left |-> 0, p_right |-> 0]
\* a pool after memset(p, 0, sizeof(*p))
ZeroPool == [q |-> <<>>, in_flight |-> 0, stop |-> 0, nthreads |-> 0, q_cap |-> 0,
             probs |-> ZeroProbs, max_steps |-> 0, owner |-> 0]

\* server_context_init with the model's scaled-down default world
InitCfg == [world_kind |-> WORLD_WRAP, width |-> 2, height |-> 1, probs |-> Uniform,
            k_max_steps |-> 1, total_reps |-> 1]

CtlInit ==
  /\ sim_state = RW_WIRE_SIM_LOBBY
  /\ cfg = InitCfg
  /\ current_rep = 0
  /\ multi_user = 0
  /\ owner_fd = NoOwner
  /\ env \in Envs
  /\ clients = [i \in 1..NSlots |-> -1]
  /\ joined = <<>>
  /\ world = world_init(InitCfg.world_kind, InitCfg.width, InitCfg.height)
  /\ results = results_init(InitCfg.width, InitCfg.height)
  /\ sm = [running |-> 0, stop_requested |-> 0]
  /\ sim = [s \in SimIds |-> NoSim]
  /\ pool = ZeroPool
  /\ workers = [s \in SimIds |-> [i \in WorkerIds |-> NoWorker]]
  /\ fs = [p \in Paths |-> IF p = "f" THEN InitFile ELSE NoFile]
  /\ pc = [c \in Clients |-> "closed"]
  /\ req = [c \in Clients |-> NoReq]
  /\ nreq = 0
  /\ out = Quiet

\* no thread is inside rw_send_msg
WireIdle ==
  /\ wire = [c \in Clients |-> <<>>]
  /\ wthr = [w \in Writers |-> [pc |-> "off", i |-> 0]]
  /\ clients_mtx = 0

\* the parts of the system that a specification of one part leaves out
SnapIdle == [pc |-> "off"]
SidIdle == [pc |-> "off"]
SlowIdle == [pc |-> "off"]
DispIdle == [pc |-> "off"]
ConnIdle == [pc |-> "off"]
MenuIdle == [pc |-> "off"]
WalkIdle == [pc |-> "off"]
GenIdle == [pc |-> "off"]
LkIdle == [pc |-> "off"]
RingIdle == [pc |-> "off"]
IsoIdle == [pc |-> "off"]
StIdle == [pc |-> "off"]
MoreIdle == lk = LkIdle /\ ring = RingIdle /\ iso = IsoIdle /\ launch = StIdle
AsideIdle ==
  conn = ConnIdle /\ menu = MenuIdle /\ walk = WalkIdle /\ gen = GenIdle /\ MoreIdle

Init ==
  /\ CtlInit
  /\ WireIdle
  /\ snap = SnapIdle /\ sid = SidIdle /\ slow = SlowIdle /\ disp = DispIdle /\ AsideIdle

(***************************************************************************)
(* server_ipc.c: client_thread, connection set-up and tear-down            *)
(***************************************************************************)
\* accept_loop: a connection is accepted and its thread created
Accept(c) ==
  /\ c \in env.fds
  /\ pc[c] = "closed"
  /\ pc' = [pc EXCEPT ![c] = "accepted"]
  /\ out' = Quiet
  /\ UNCHANGED <<srv, owner_fd, fixed, clients, joined, sim, pool, workers, fs, req, nreq>>

\* handle_join succeeds (WELCOME is sent), then server_context_add_client
HandleJoin(c) ==
  /\ pc[c] = "accepted"
  /\ FreeSlots(clients) # {}
  /\ clients' = server_context_add_client(clients, c)
  /\ joined' = Append(joined, c)
  /\ pc' = [pc EXCEPT ![c] = "registered"]
  /\ out' = [by |-> c, re |-> 0, frames |-> <<Frame(c, RW_MSG_WELCOME, cfg.total_reps, current_rep)>>]
  /\ UNCHANGED <<srv, owner_fd, fixed, sim, pool, workers, fs, req, nreq>>

\* handle_join fails (no JOIN, wrong length, read error): the socket is closed
JoinReject(c) ==
  /\ pc[c] = "accepted"
  /\ pc' = [pc EXCEPT ![c] = "closed"]
  /\ out' = Quiet
  /\ UNCHANGED <<srv, owner_fd, fixed, clients, joined, sim, pool, workers, fs, req, nreq>>

\* if (server_context_get_owner_fd(g_ctx) < 0): the read
GetOwner(c) ==
  /\ pc[c] = "registered"
  /\ pc' = [pc EXCEPT ![c] = IF owner_fd < 0 THEN "setowner" ELSE "loop"]
  /\ out' = Quiet
  /\ UNCHANGED <<srv, owner_fd, fixed, clients, joined, sim, pool, workers, fs, req, nreq>>

\* server_context_set_owner_fd(g_ctx, client_fd): the write that follows the read
SetOwner(c) ==
  /\ pc[c] = "setowner"
  /\ owner_fd' = c
  /\ pc' = [pc EXCEPT ![c] = "loop"]
  /\ out' = Quiet
  /\ UNCHANGED <<srv, fixed, clients, joined, sim, pool, workers, fs, req, nreq>>

\* rw_recv_hdr (or a payload read) fails: break, server_context_remove_client
RecvFail(c) ==
  /\ pc[c] = "loop"
  /\ clients' = server_context_remove_client(clients, c)
  /\ joined' = Without(joined, c)
  /\ pc' = [pc EXCEPT ![c] = "clearowner"]
  /\ out' = Quiet
  /\ UNCHANGED <<srv, owner_fd, fixed, sim, pool, workers, fs, req, nreq>>

\* if owner left, clear owner; close(client_fd)
ClearOwner(c) ==
  /\ pc[c] = "clearowner"
  /\ owner_fd' = IF owner_fd = c THEN NoOwner ELSE owner_fd
  /\ pc' = [pc EXCEPT ![c] = "closed"]
  /\ out' = Quiet
  /\ UNCHANGED <<srv, fixed, clients, joined, sim, pool, workers, fs, req, nreq>>

\* a reply that ends the handling of a request in the step that received it
ReplyNow(c, type, frames) ==
  /\ nreq < env.requests
  /\ nreq' = nreq + 1
  /\ out' = Reply(c, type, frames)
  /\ UNCHANGED <<pc, req>>

\* the request passed its checks: the mutation follows in the next step
Proceed(c, r, to) ==
  /\ nreq < env.requests
  /\ nreq' = nreq + 1
  /\ req' = [req EXCEPT ![c] = r]
  /\ out' = Quiet
  /\ pc' = [pc EXCEPT ![c] = to]

\* the reply that ends the second step of a handler
Finish(c, frames) ==
  /\ out' = Reply(c, req[c].type, frames)
  /\ pc' = [pc EXCEPT ![c] = "loop"]
  /\ req' = [req EXCEPT ![c] = NoReq]
  /\ nreq' = nreq

(***************************************************************************)
(* server_ipc.c: client_thread, the request handlers                       *)
(***************************************************************************)
CanControl(c) == server_context_client_can_control(owner_fd, c)

ProbSum(p) == p.p_up + p.p_down + p.p_left + p.p_right

\* a free slot for a new simulation-manager thread
FreeSim == {s \in SimIds : sim[s].pc = "none"}

\* QUERY_STATUS: answered with STATUS, for every client
QueryStatus(c) ==
  /\ pc[c] = "loop"
  /\ ReplyNow(c, RW_MSG_QUERY_STATUS,
              <<[fd |-> c, type |-> RW_MSG_STATUS, a |-> sim_state, b |-> current_rep,
                 can_control |-> IF CanControl(c) THEN 1 ELSE 0,
                 total_reps |-> cfg.total_reps, multi_user |-> multi_user]>>)
  /\ UNCHANGED <<srv, owner_fd, fixed, clients, joined, sim, pool, workers, fs>>

\* CREATE_SIM up to the last check
\* CREATE_SIM with the probability sum checked before the parameters: the
\* variant C12 is tested against
RecvCreateSim_sumfirst(c, r) ==
  /\ pc[c] = "loop"
  /\ IF ~CanControl(c)
     THEN ReplyNow(c, RW_MSG_CREATE_SIM, send_error(c, 1))
     ELSE IF sim_state = RW_WIRE_SIM_RUNNING
     THEN ReplyNow(c, RW_MSG_CREATE_SIM, send_error(c, 2))
     ELSE IF ProbSum(r.probs) < 999 \/ ProbSum(r.probs) > 1001
     THEN ReplyNow(c, RW_MSG_CREATE_SIM, send_error(c, 4))
     ELSE IF r.width = 0 \/ r.height = 0 \/ r.total_reps = 0 \/ r.k_max_steps = 0
     THEN ReplyNow(c, RW_MSG_CREATE_SIM, send_error(c, 3))
     ELSE Proceed(c, [type |-> RW_MSG_CREATE_SIM, p |-> r], "create")
  /\ UNCHANGED <<srv, owner_fd, fixed, clients, joined, sim, pool, workers, fs>>
RecvCreateSim(c, r) ==
  /\ pc[c] = "loop"
  /\ IF ~CanControl(c)
     THEN ReplyNow(c, RW_MSG_CREATE_SIM, send_error(c, 1))
     ELSE IF sim_state = RW_WIRE_SIM_RUNNING
     THEN ReplyNow(c, RW_MSG_CREATE_SIM, send_error(c, 2))
     ELSE IF r.width = 0 \/ r.height = 0 \/ r.total_reps = 0 \/ r.k_max_steps = 0
     THEN ReplyNow(c, RW_MSG_CREATE_SIM, send_error(c, 3))
     ELSE IF ProbSum(r.probs) < 999 \/ ProbSum(r.probs) > 1001
     THEN ReplyNow(c, RW_MSG_CREATE_SIM, send_error(c, 4))
     ELSE Proceed(c, [type |-> RW_MSG_CREATE_SIM, p |-> r], "create")
  /\ UNCHANGED <<srv, owner_fd, fixed, clients, joined, sim, pool, workers, fs>>

\* CREATE_SIM from server_context_set_multi_user to send_ack
DoCreateSim(c) ==
  /\ pc[c] = "create"
  /\ LET r == req[c].p
         kind == IF r.world_kind = WORLD_OBSTACLES THEN WORLD_OBSTACLES ELSE WORLD_WRAP
         w0 == world_init(kind, r.width, r.height)
     IN
       /\ multi_user' = (IF r.multi_user # 0 THEN 1 ELSE 0)
       /\ cfg' = [world_kind |-> kind, width |-> r.width, height |-> r.height,
                  probs |-> r.probs, k_max_steps |-> r.k_max_steps,
                  total_reps |-> r.total_reps]
       /\ current_rep' = 0
       /\ world' = IF kind = WORLD_OBSTACLES
                   THEN world_generate_obstacles(w0, CreatePercent, CreateSeed)
                   ELSE w0
       /\ results' = results_init(r.width, r.height)
       /\ sim_state' = RW_WIRE_SIM_LOBBY
  /\ Finish(c, send_ack(c, RW_MSG_CREATE_SIM, 0))
  /\ UNCHANGED <<sm, owner_fd, fixed, clients, joined, sim, pool, workers, fs>>

\* LOAD_WORLD up to the state check
RecvLoadWorld(c, path, mu) ==
  /\ pc[c] = "loop"
  /\ IF ~CanControl(c)
     THEN ReplyNow(c, RW_MSG_LOAD_WORLD, send_error(c, 1))
     ELSE IF sim_state = RW_WIRE_SIM_RUNNING
     THEN ReplyNow(c, RW_MSG_LOAD_WORLD, send_error(c, 2))
     ELSE Proceed(c, [type |-> RW_MSG_LOAD_WORLD, path |-> path, multi_user |-> mu],
                  "loadworld")
  /\ UNCHANGED <<srv, owner_fd, fixed, clients, joined, sim, pool, workers, fs>>

\* persist_load_world on an intact file: the world and the config the file holds
persist_load_world(f) ==
  [world |-> [kind |-> f.world_kind, width |-> f.width, height |-> f.height,
              obstacles |-> f.obstacles],
   cfg |-> [world_kind |-> f.world_kind, width |-> f.width, height |-> f.height,
            probs |-> f.probs, k_max_steps |-> f.k_max_steps,
            total_reps |-> f.total_reps]]

\* LOAD_WORLD from server_context_set_multi_user to the reply
DoLoadWorld(c) ==
  /\ pc[c] = "loadworld"
  /\ multi_user' = req[c].multi_user
  /\ LET f == fs[req[c].path] IN
       IF f.absent
       THEN /\ Finish(c, send_error(c, 8))
            /\ UNCHANGED <<sim_state, cfg, current_rep, world, results>>
       ELSE /\ world' = persist_load_world(f).world
            /\ cfg' = persist_load_world(f).cfg
            /\ results' = results_init(f.width, f.height)
            /\ sim_state' = RW_WIRE_SIM_LOBBY
            /\ Finish(c, send_ack(c, RW_MSG_LOAD_WORLD, 0))
            /\ UNCHANGED current_rep
  /\ UNCHANGED <<sm, owner_fd, fixed, clients, joined, sim, pool, workers, fs>>

\* START_SIM without the state check: the variant C1 is tested against
RecvStartSim_nostate(c) ==
  /\ pc[c] = "loop"
  /\ IF ~CanControl(c)
     THEN ReplyNow(c, RW_MSG_START_SIM, send_error(c, 1))
     ELSE Proceed(c, [type |-> RW_MSG_START_SIM], "start")
  /\ UNCHANGED <<srv, owner_fd, fixed, clients, joined, sim, pool, workers, fs>>

\* START_SIM up to the state check
RecvStartSim(c) ==
  /\ pc[c] = "loop"
  /\ IF ~CanControl(c)
     THEN ReplyNow(c, RW_MSG_START_SIM, send_error(c, 1))
     ELSE IF sim_state = RW_WIRE_SIM_RUNNING
     THEN ReplyNow(c, RW_MSG_START_SIM, send_error(c, 2))
     ELSE Proceed(c, [type |-> RW_MSG_START_SIM], "start")
  /\ UNCHANGED <<srv, owner_fd, fixed, clients, joined, sim, pool, workers, fs>>

\* sim_manager_start past its sm->running test: pthread_create of the thread
sim_manager_start(s) ==
  sim' = [sim EXCEPT ![s] = [NoSim EXCEPT !.pc = "created"]]

\* START_SIM: sim_manager_set_on_end, sim_manager_start, reply
DoStartSim(c) ==
  /\ pc[c] = "start"
  /\ IF sm.running # 0
     THEN /\ Finish(c, send_error(c, 10))
          /\ UNCHANGED sim
     ELSE /\ \E s \in FreeSim : sim_manager_start(s)
          /\ Finish(c, send_ack(c, RW_MSG_START_SIM, 0))
  /\ UNCHANGED <<srv, owner_fd, fixed, clients, joined, pool, workers, fs>>

\* RESTART_SIM up to the parameter check
RecvRestartSim(c, n) ==
  /\ pc[c] = "loop"
  /\ IF ~CanControl(c)
     THEN ReplyNow(c, RW_MSG_RESTART_SIM, send_error(c, 1))
     ELSE IF sim_state = RW_WIRE_SIM_RUNNING
     THEN ReplyNow(c, RW_MSG_RESTART_SIM, send_error(c, 2))
     ELSE IF n = 0
     THEN ReplyNow(c, RW_MSG_RESTART_SIM, send_error(c, 3))
     ELSE Proceed(c, [type |-> RW_MSG_RESTART_SIM, total_reps |-> n], "restart")
  /\ UNCHANGED <<srv, owner_fd, fixed, clients, joined, sim, pool, workers, fs>>

\* RESTART_SIM: sim_manager_restart and the reply
DoRestartSim(c) ==
  /\ pc[c] = "restart"
  /\ IF sm.running # 0
     THEN /\ Finish(c, send_error(c, 10))
          /\ UNCHANGED <<sim, cfg, current_rep, sim_state>>
     ELSE /\ cfg' = [cfg EXCEPT !.total_reps = req[c].total_reps]
          /\ current_rep' = 0
          /\ sim_state' = RW_WIRE_SIM_LOBBY
          /\ \E s \in FreeSim : sim_manager_start(s)
          /\ Finish(c, send_ack(c, RW_MSG_RESTART_SIM, 0))
  /\ UNCHANGED <<multi_user, world, results, sm, owner_fd, fixed, clients, joined, pool,
                 workers, fs>>

\* sim_manager_request_stop
sim_manager_request_stop(m) == [m EXCEPT !.stop_requested = 1]

\* a run that was started and has replications left to complete
Unfinished(s) == sim[s].pc \in {"created", "submit", "wait"}

\* STOP_SIM
StopSim(c) ==
  /\ pc[c] = "loop"
  /\ IF ~CanControl(c)
     THEN /\ ReplyNow(c, RW_MSG_STOP_SIM, send_error(c, 1))
          /\ UNCHANGED sm
          /\ UNCHANGED sim
     ELSE /\ sm' = sim_manager_request_stop(sm)
          /\ sim' = [s \in SimIds |->
                       IF Unfinished(s) THEN [sim[s] EXCEPT !.stop_acked = TRUE]
                       ELSE sim[s]]
          /\ ReplyNow(c, RW_MSG_STOP_SIM, send_ack(c, RW_MSG_STOP_SIM, 0))
  /\ UNCHANGED <<sim_state, cfg, current_rep, multi_user, world, results,
                 owner_fd, fixed, clients, joined, pool, workers, fs>>

\* QUIT that stops the simulation for any client: the variant C3 is tested against
Quit_unchecked(c, stop_if_owner) ==
  /\ pc[c] = "loop"
  /\ nreq < env.requests
  /\ nreq' = nreq + 1
  /\ sm' = IF stop_if_owner # 0 THEN sim_manager_request_stop(sm) ELSE sm
  /\ out' = Reply(c, RW_MSG_QUIT, send_ack(c, RW_MSG_QUIT, 0))
  /\ clients' = server_context_remove_client(clients, c)
  /\ joined' = Without(joined, c)
  /\ pc' = [pc EXCEPT ![c] = "clearowner"]
  /\ UNCHANGED <<sim_state, cfg, current_rep, multi_user, world, results,
                 owner_fd, fixed, sim, pool, workers, fs, req>>

\* QUIT: an owner's stop_if_owner stops the simulation; ACK; break and
\* server_context_remove_client
Quit(c, stop_if_owner) ==
  /\ pc[c] = "loop"
  /\ nreq < env.requests
  /\ nreq' = nreq + 1
  /\ sm' = IF stop_if_owner # 0 /\ CanControl(c)
           THEN sim_manager_request_stop(sm) ELSE sm
  /\ out' = Reply(c, RW_MSG_QUIT, send_ack(c, RW_MSG_QUIT, 0))
  /\ clients' = server_context_remove_client(clients, c)
  /\ joined' = Without(joined, c)
  /\ pc' = [pc EXCEPT ![c] = "clearowner"]
  /\ UNCHANGED <<sim_state, cfg, current_rep, multi_user, world, results,
                 owner_fd, fixed, sim, pool, workers, fs, req>>

(***************************************************************************)
(* persist.c and the persistence handlers                                  *)
(***************************************************************************)
\* the paths SAVE_RESULTS may name: "f" is never overwritten, the last one
\* cannot be opened for writing
SavePaths == {"g", "/nodir/x"}

\* persist_save_results: the bytes written (config, world, aggregate)
persist_save_results(c0, w, r) ==
  [absent |-> FALSE, world_kind |-> w.kind, width |-> w.width, height |-> w.height,
   probs |-> c0.probs, k_max_steps |-> c0.k_max_steps, total_reps |-> c0.total_reps,
   obstacles |-> w.obstacles, trials |-> r.trials, sum_steps |-> r.sum_steps,
   success_leq_k |-> r.success_leq_k]

\* SAVE_RESULTS
SaveResults(c, path) ==
  /\ pc[c] = "loop"
  /\ IF ~CanControl(c)
     THEN /\ ReplyNow(c, RW_MSG_SAVE_RESULTS, send_error(c, 1))
          /\ UNCHANGED fs
     ELSE IF path \notin Paths
     THEN /\ ReplyNow(c, RW_MSG_SAVE_RESULTS, send_error(c, 14))
          /\ UNCHANGED fs
     ELSE /\ fs' = [fs EXCEPT ![path] = persist_save_results(cfg, world, results)]
          /\ ReplyNow(c, RW_MSG_SAVE_RESULTS, send_ack(c, RW_MSG_SAVE_RESULTS, 0))
  /\ UNCHANGED <<srv, owner_fd, fixed, clients, joined, sim, pool, workers>>

\* LOAD_RESULTS up to the capability check (the handler has no state check)
RecvLoadResults(c, path) ==
  /\ pc[c] = "loop"
  /\ IF ~CanControl(c)
     THEN ReplyNow(c, RW_MSG_LOAD_RESULTS, send_error(c, 1))
     ELSE Proceed(c, [type |-> RW_MSG_LOAD_RESULTS, path |-> path], "load1")
  /\ UNCHANGED <<srv, owner_fd, fixed, clients, joined, sim, pool, workers, fs>>

\* persist_load_results: header; world_destroy/world_init; results_destroy/
\* results_init; read of the obstacles
LoadResults1(c) ==
  /\ pc[c] = "load1"
  /\ LET f == fs[req[c].path] IN
       IF f.absent
       THEN /\ Finish(c, send_error(c, 15))
            /\ UNCHANGED <<world, results>>
       ELSE /\ world' = [kind |-> f.world_kind, width |-> f.width,
                         height |-> f.height, obstacles |-> f.obstacles]
            /\ results' = results_init(f.width, f.height)
            /\ pc' = [pc EXCEPT ![c] = "load2"]
            /\ out' = Quiet
            /\ UNCHANGED <<req, nreq>>
  /\ UNCHANGED <<sim_state, cfg, current_rep, multi_user, sm, owner_fd, fixed, clients,
                 joined, sim, pool, workers, fs>>

\* persist_load_results: read of results->trials (no lock is taken)
LoadResults2(c) ==
  /\ pc[c] = "load2"
  /\ results' = [results EXCEPT !.trials = fs[req[c].path].trials]
  /\ pc' = [pc EXCEPT ![c] = "load3"]
  /\ out' = Quiet
  /\ UNCHANGED <<sim_state, cfg, current_rep, multi_user, world, sm, owner_fd, fixed,
                 clients, joined, sim, pool, workers, fs, req, nreq>>

\* persist_load_results: read of sum_steps and success_leq_k, the ctx update;
\* then the handler's server_context_set_sim_state(FINISHED) and send_ack
LoadResults3(c) ==
  /\ pc[c] = "load3"
  /\ LET f == fs[req[c].path] IN
       /\ results' = [results EXCEPT !.sum_steps = f.sum_steps,
                                     !.success_leq_k = f.success_leq_k]
       /\ cfg' = [world_kind |-> f.world_kind, width |-> f.width, height |-> f.height,
                  probs |-> f.probs, k_max_steps |-> f.k_max_steps,
                  total_reps |-> f.total_reps]
  /\ sim_state' = RW_WIRE_SIM_FINISHED
  /\ Finish(c, send_ack(c, RW_MSG_LOAD_RESULTS, 0))
  /\ UNCHANGED <<current_rep, multi_user, world, sm, owner_fd, fixed, clients, joined, sim,
                 pool, workers, fs>>

(***************************************************************************)
(* snapshot_sender.c as the REQUEST_SNAPSHOT handler sees it               *)
(***************************************************************************)
RECURSIVE SnapshotFrames(_)
\* send_snapshot_to_client for each registered fd: BEGIN ... END
SnapshotFrames(fds) ==
  IF fds = <<>> THEN <<>>
  ELSE <<Frame(Head(fds), RW_MSG_SNAPSHOT_BEGIN, world_cell_count(world), 0),
         Frame(Head(fds), RW_MSG_SNAPSHOT_END, 0, 0)>>
       \o SnapshotFrames(Tail(fds))

\* REQUEST_SNAPSHOT: snapshot_broadcast to every client, then the ACK
RequestSnapshot(c) ==
  /\ pc[c] = "loop"
  /\ ReplyNow(c, RW_MSG_REQUEST_SNAPSHOT,
              SnapshotFrames(SlotFds(clients, 1))
                \o send_ack(c, RW_MSG_REQUEST_SNAPSHOT, 0))
  /\ UNCHANGED <<srv, owner_fd, fixed, clients, joined, sim, pool, workers, fs>>

(***************************************************************************)
(* sim_manager.c: sim_thread_main                                          *)
(***************************************************************************)
\* server_context_for_each_client with a send callback: one frame per fd
Broadcast(type, a, b) ==
  LET fds == SlotFds(clients, 1)
  IN [by |-> 0, re |-> 0, frames |-> [i \in 1..Len(fds) |-> Frame(fds[i], type, a, b)]]

\* worker_pool_init: memset, the pool's fields, pthread_create of the workers
worker_pool_init(s, nthreads, probs, max_steps) ==
  [q |-> <<>>, in_flight |-> 0, stop |-> 0, nthreads |-> nthreads,
   q_cap |-> MinQueueCap, probs |-> probs, max_steps |-> max_steps, owner |-> s]

\* worker_pool_stop
worker_pool_stop(p) == [p EXCEPT !.stop = 1]

\* the head of the replication loop: rep <= total_reps and no stop requested
LoopContinues(rep, m) == rep <= cfg.total_reps /\ m.stop_requested = 0

\* running = 1; stop_requested = 0; set_sim_state(RUNNING); set_progress(0);
\* worker_pool_init; results_clear; W and H are read once; the first loop test
SimBegin(s) ==
  /\ sim[s].pc = "created"
  /\ sm' = [running |-> 1, stop_requested |-> 0]
  /\ sim_state' = RW_WIRE_SIM_RUNNING
  /\ current_rep' = 0
  /\ workers' = [workers EXCEPT ![s] = [i \in WorkerIds |->
                    IF i <= env.nthreads THEN [pc |-> "idle", job |-> 0] ELSE NoWorker]]
  /\ results' = results_clear(results)
  /\ LET p == worker_pool_init(s, env.nthreads, cfg.probs, cfg.k_max_steps)
         go == LoopContinues(1, sm')
     IN /\ pool' = IF go THEN p ELSE worker_pool_stop(p)
        /\ sim' = [sim EXCEPT ![s] = [pc |-> IF go THEN "submit" ELSE "join",
                                      rep |-> 1, cur |-> 0,
                                      W |-> world.width, H |-> world.height,
                                      stop_acked |-> sim[s].stop_acked]]
  /\ out' = Quiet
  /\ UNCHANGED <<cfg, multi_user, world, owner_fd, fixed, clients, joined, fs, pc, req, nreq>>

\* worker_pool_submit: fails once stop is set, else pushes (spins while full)
worker_pool_submit(p, job) ==
  IF p.stop # 0 THEN p
  ELSE [p EXCEPT !.q = Append(@, job), !.in_flight = @ + 1]

\* one iteration of the cell loops: the stop check, the obstacle test, submit
SimSubmit(s) ==
  /\ sim[s].pc = "submit"
  /\ LET t == sim[s]
         x == t.cur % t.W
         y == t.cur \div t.W
         last == t.cur + 1 >= t.W * t.H
         job == [cell_idx |-> world_index(world, x, y), start |-> [x |-> x, y |-> y]]
     IN IF sm.stop_requested # 0
        THEN /\ sim' = [sim EXCEPT ![s].pc = "wait"]
             /\ pool' = pool
        ELSE /\ \/ world_is_obstacle_xy(world, x, y) /\ pool' = pool
                \/ /\ ~world_is_obstacle_xy(world, x, y)
                   /\ pool.stop # 0 \/ Len(pool.q) < pool.q_cap
                   /\ pool' = worker_pool_submit(pool, job)
             /\ sim' = [sim EXCEPT ![s].cur = @ + 1,
                                   ![s].pc = IF last THEN "wait" ELSE "submit"]
  /\ out' = Quiet
  /\ UNCHANGED <<srv, owner_fd, fixed, clients, joined, workers, fs, pc, req, nreq>>

\* worker_pool_wait_all returns; set_progress(rep); broadcast_progress; rep++ and
\* the loop test; worker_pool_stop when the loop is left
SimWaitAll(s) ==
  /\ sim[s].pc = "wait"
  /\ pool.in_flight = 0
  /\ current_rep' = sim[s].rep
  /\ out' = Broadcast(RW_MSG_PROGRESS, sim[s].rep, cfg.total_reps)
  /\ LET go == LoopContinues(sim[s].rep + 1, sm)
     IN /\ sim' = [sim EXCEPT ![s].rep = @ + 1, ![s].cur = 0,
                              ![s].pc = IF go THEN "submit" ELSE "join"]
        /\ pool' = IF go THEN pool ELSE worker_pool_stop(pool)
  /\ UNCHANGED <<sim_state, cfg, multi_user, world, results, sm, owner_fd, fixed, clients,
                 joined, workers, fs, pc, req, nreq>>

\* the threads worker_pool_destroy joins: p->threads[0 .. nthreads-1]
Joined == IF pool.nthreads = 0 THEN {} ELSE {pool.owner}

\* sim_thread_main leaving its loop without set_sim_state(FINISHED) before
\* on_end: the variant C38 is tested against
SimJoin_end_first(s) ==
  /\ sim[s].pc = "join"
  /\ \A o \in Joined : \A i \in 1..pool.nthreads : workers[o][i].pc = "exited"
  /\ workers' = [o \in SimIds |->
                   IF o \in Joined THEN [i \in WorkerIds |-> NoWorker] ELSE workers[o]]
  /\ pool' = ZeroPool
  /\ sm' = [sm EXCEPT !.running = 0]
  /\ sim_state' = sim_state
  /\ sim' = [sim EXCEPT ![s].pc = "end"]
  /\ out' = Quiet
  /\ UNCHANGED <<cfg, current_rep, multi_user, world, results, owner_fd, fixed, clients,
                 joined, fs, pc, req, nreq>>

\* worker_pool_destroy joins the workers and zeroes the pool; running = 0;
\* set_sim_state(FINISHED)
SimJoin(s) ==
  /\ sim[s].pc = "join"
  /\ \A o \in Joined : \A i \in 1..pool.nthreads : workers[o][i].pc = "exited"
  /\ workers' = [o \in SimIds |->
                   IF o \in Joined THEN [i \in WorkerIds |-> NoWorker] ELSE workers[o]]
  /\ pool' = ZeroPool
  /\ sm' = [sm EXCEPT !.running = 0]
  /\ sim_state' = RW_WIRE_SIM_FINISHED
  /\ sim' = [sim EXCEPT ![s].pc = "end"]
  /\ out' = Quiet
  /\ UNCHANGED <<cfg, current_rep, multi_user, world, results, owner_fd, fixed, clients,
                 joined, fs, pc, req, nreq>>

\* sm->on_end(user, stop_requested ? 1 : 0): END is broadcast; the thread returns
SimEnd(s) ==
  /\ sim[s].pc = "end"
  /\ out' = Broadcast(RW_MSG_END, IF sm.stop_requested # 0 THEN 1 ELSE 0, 0)
  /\ sim' = [sim EXCEPT ![s] = NoSim]
  /\ UNCHANGED <<srv, owner_fd, fixed, clients, joined, pool, workers, fs, pc, req, nreq>>

(***************************************************************************)
(* worker_pool.c: worker_main                                              *)
(***************************************************************************)
\* the wait on cv_nonempty ends with a job in the queue: queue_pop
WorkerPop(s, i) ==
  /\ workers[s][i].pc = "idle"
  /\ pool.stop = 0
  /\ Len(pool.q) > 0
  /\ workers' = [workers EXCEPT ![s][i] = [pc |-> "run", job |-> Head(pool.q)]]
  /\ pool' = [pool EXCEPT !.q = Tail(@)]
  /\ out' = Quiet
  /\ UNCHANGED <<srv, owner_fd, fixed, clients, joined, sim, fs, pc, req, nreq>>

\* if (p->stop) break
WorkerExit(s, i) ==
  /\ workers[s][i].pc = "idle"
  /\ pool.stop # 0
  /\ workers' = [workers EXCEPT ![s][i].pc = "exited"]
  /\ out' = Quiet
  /\ UNCHANGED <<srv, owner_fd, fixed, clients, joined, sim, pool, fs, pc, req, nreq>>

\* job_done under the pool mutex
job_done(p) == IF p.in_flight > 0 THEN [p EXCEPT !.in_flight = @ - 1] ELSE p

\* random_walk_run on the popped job, results_update, job_done
WorkerRun(s, i) ==
  /\ workers[s][i].pc = "run"
  /\ \E rs \in [1..pool.max_steps -> Draws] :
       LET job == workers[s][i].job
           o == random_walk_run(world, job.start, pool.probs, pool.max_steps, rs)
       IN results' = results_update(results, job.cell_idx, o.steps,
                                    o.reached_origin, o.success_leq_k)
  /\ pool' = job_done(pool)
  /\ workers' = [workers EXCEPT ![s][i] = [pc |-> "idle", job |-> 0]]
  /\ out' = Quiet
  /\ UNCHANGED <<sim_state, cfg, current_rep, multi_user, world, sm, owner_fd, fixed,
                 clients, joined, sim, fs, pc, req, nreq>>

(***************************************************************************)
(* The server                                                              *)
(***************************************************************************)
ClientStep(c) ==
  \/ Accept(c) \/ HandleJoin(c) \/ JoinReject(c)
  \/ GetOwner(c) \/ SetOwner(c) \/ RecvFail(c) \/ ClearOwner(c)
  \/ QueryStatus(c)
  \/ \E r \in CreateReqs : RecvCreateSim(c, r)
  \/ DoCreateSim(c)
  \/ \E p \in Paths : RecvLoadWorld(c, p, 1)
  \/ DoLoadWorld(c)
  \/ RecvStartSim(c) \/ DoStartSim(c)
  \/ \E n \in {0, MaxReps} : RecvRestartSim(c, n)
  \/ DoRestartSim(c)
  \/ StopSim(c)
  \/ \E q \in {0, 1} : Quit(c, q)
  \/ \E p \in SavePaths : SaveResults(c, p)
  \/ \E p \in Paths : RecvLoadResults(c, p)
  \/ LoadResults1(c) \/ LoadResults2(c) \/ LoadResults3(c)
  \/ RequestSnapshot(c)

SimStep(s) ==
  \/ SimBegin(s) \/ SimSubmit(s) \/ SimWaitAll(s) \/ SimJoin(s) \/ SimEnd(s)

WorkerStep(s, i) == WorkerPop(s, i) \/ WorkerExit(s, i) \/ WorkerRun(s, i)

Next ==
  \/ \E c \in Clients : ClientStep(c)
  \/ \E s \in SimIds : SimStep(s)
  \/ \E s \in SimIds, i \in WorkerIds : WorkerStep(s, i)

Spec == Init /\ [][Next]_vars

(***************************************************************************)
(* protocol.c: rw_send_msg on the server's sockets.  Both clients are       *)
(* registered; the handler of fd 1 acknowledges a request, the simulation   *)
(* thread broadcasts PROGRESS, and the handler of fd 2 runs a snapshot      *)
(* broadcast and then acknowledges it.                                      *)
(***************************************************************************)
Send(fd, type, len, locked) == [fd |-> fd, type |-> type, len |-> len, locked |-> locked]

RECURSIVE SnapshotSends(_)
\* send_snapshot_to_client for each fd: BEGIN, a CHUNK, END (no payload)
SnapshotSends(fds) ==
  IF fds = <<>> THEN <<>>
  ELSE <<Send(Head(fds), RW_MSG_SNAPSHOT_BEGIN, 24, TRUE),
         Send(Head(fds), RW_MSG_SNAPSHOT_CHUNK, 16, TRUE),
         Send(Head(fds), RW_MSG_SNAPSHOT_END, 0, TRUE)>> \o SnapshotSends(Tail(fds))

\* the rw_send_msg calls of each thread, in order; locked marks the calls made
\* inside server_context_for_each_client
Sends(w) ==
  LET fds == SlotFds(clients, 1) IN
  IF w = 1 THEN <<Send(1, RW_MSG_ACK, 4, FALSE)>>
  ELSE IF w = 2 THEN SnapshotSends(fds) \o <<Send(2, RW_MSG_ACK, 4, FALSE)>>
  ELSE [i \in 1..Len(fds) |-> Send(fds[i], RW_MSG_PROGRESS, 8, TRUE)]

InitWire ==
  /\ sim_state = RW_WIRE_SIM_RUNNING
  /\ cfg = InitCfg
  /\ current_rep = 0
  /\ multi_user = 0
  /\ owner_fd = 1
  /\ env \in {e \in Envs : e.fds = Clients}
  /\ clients = [i \in 1..NSlots |-> IF i \in Clients THEN i ELSE -1]
  /\ joined = <<1, 2>>
  /\ world = world_init(InitCfg.world_kind, InitCfg.width, InitCfg.height)
  /\ results = results_init(InitCfg.width, InitCfg.height)
  /\ sm = [running |-> 1, stop_requested |-> 0]
  /\ sim = [s \in SimIds |-> [NoSim EXCEPT !.pc = "wait", !.rep = 1]]
  /\ pool = worker_pool_init(1, 1, InitCfg.probs, InitCfg.k_max_steps)
  /\ workers = [s \in SimIds |-> [i \in WorkerIds |->
                  IF i = 1 THEN [pc |-> "idle", job |-> 0] ELSE NoWorker]]
  /\ fs = [p \in Paths |-> IF p = "f" THEN InitFile ELSE NoFile]
  /\ pc = [c \in Clients |-> "loop"]
  /\ req = [c \in Clients |-> NoReq]
  /\ nreq = 0
  /\ out = Quiet
  /\ wire = [c \in Clients |-> <<>>]
  /\ wthr = [w \in Writers |-> [pc |-> "send", i |-> 1]]
  /\ clients_mtx = 0
  /\ snap = SnapIdle /\ sid = SidIdle /\ slow = SlowIdle /\ disp = DispIdle /\ AsideIdle

\* the send thread w is about to make, if any
Pending(w) == wthr[w].i <= Len(Sends(w))
Cur(w) == Sends(w)[wthr[w].i]

\* server_context_for_each_client: pthread_mutex_lock(&ctx->clients_mtx)
WireLock(w) ==
  /\ wthr[w].pc = "send" /\ Pending(w) /\ Cur(w).locked
  /\ clients_mtx = 0
  /\ clients_mtx' = w
  /\ UNCHANGED <<ctl, wire, wthr, snap, sid, slow, disp, aside>>

\* rw_send_msg: rw_write_all(fd, &hdr, sizeof(hdr))
WriteHeader(w) ==
  /\ wthr[w].pc = "send" /\ Pending(w)
  /\ Cur(w).locked <=> clients_mtx = w
  /\ wire' = [wire EXCEPT ![Cur(w).fd] =
                Append(@, [part |-> "hdr", type |-> Cur(w).type,
                           payload_len |-> Cur(w).len, by |-> w, i |-> wthr[w].i])]
  /\ wthr' = [wthr EXCEPT ![w] = IF Cur(w).len > 0 THEN [pc |-> "payload", i |-> @.i]
                                 ELSE [pc |-> "send", i |-> @.i + 1]]
  /\ UNCHANGED <<ctl, clients_mtx, snap, sid, slow, disp, aside>>

\* rw_send_msg: rw_write_all(fd, payload, payload_len)
WritePayload(w) ==
  /\ wthr[w].pc = "payload"
  /\ wire' = [wire EXCEPT ![Cur(w).fd] =
                Append(@, [part |-> "payload", type |-> Cur(w).type,
                           payload_len |-> Cur(w).len, by |-> w, i |-> wthr[w].i])]
  /\ wthr' = [wthr EXCEPT ![w] = [pc |-> "send", i |-> @.i + 1]]
  /\ UNCHANGED <<ctl, clients_mtx, snap, sid, slow, disp, aside>>

\* server_context_for_each_client: pthread_mutex_unlock(&ctx->clients_mtx)
WireUnlock(w) ==
  /\ wthr[w].pc = "send"
  /\ clients_mtx = w
  /\ IF Pending(w) THEN ~Cur(w).locked ELSE TRUE
  /\ clients_mtx' = 0
  /\ UNCHANGED <<ctl, wire, wthr, snap, sid, slow, disp, aside>>

NextWire ==
  \E w \in Writers : WireLock(w) \/ WriteHeader(w) \/ WritePayload(w) \/ WireUnlock(w)

SpecWire == InitWire /\ [][NextWire]_vars

\* what rw_recv_hdr and rw_recv_payload make of a socket's stream: each header
\* takes the next payload_len bytes as its payload
RECURSIVE Received(_)
Received(stream) ==
  IF stream = <<>> THEN <<>>
  ELSE LET h == Head(stream) IN
    IF h.payload_len = 0 \/ Len(stream) = 1
    THEN <<[type |-> h.type, payload_len |-> h.payload_len, payload |-> <<h.by, h.i>>,
            hdr |-> <<h.by, h.i>>, hdr_part |-> h.part]>> \o Received(Tail(stream))
    ELSE <<[type |-> h.type, payload_len |-> h.payload_len,
            payload |-> <<stream[2].by, stream[2].i>>,
            hdr |-> <<h.by, h.i>>, hdr_part |-> stream[2].part]>>
         \o Received(Tail(Tail(stream)))

(***************************************************************************)
(* Properties                                                              *)
(***************************************************************************)
ControlTypes ==
  {RW_MSG_CREATE_SIM, RW_MSG_LOAD_WORLD, RW_MSG_START_SIM, RW_MSG_RESTART_SIM,
   RW_MSG_STOP_SIM, RW_MSG_SAVE_RESULTS, RW_MSG_LOAD_RESULTS}

\* the positions of a client thread inside a handler, after its checks
HandlerPcs == {"create", "loadworld", "start", "restart", "load1", "load2", "load3"}

\* this step is client thread c reading the header of a request of type t
ReadsRequest(c, t) ==
  /\ pc[c] = "loop"
  /\ nreq' = nreq + 1
  /\ IF pc'[c] \in {"loop", "clearowner"} THEN out'.by = c /\ out'.re = t
     ELSE req'[c].type = t

\* this step is client thread c leaving the handling of a request
EndsRequest(c) ==
  \/ pc[c] = "loop" /\ nreq' = nreq + 1 /\ out'.by = c /\ pc'[c] \in {"loop", "clearowner"}
  \/ pc[c] \in HandlerPcs /\ pc'[c] = "loop"

\* the ACK and ERROR frames among frames that are written to fd
TerminalReplies(frames, fd) ==
  SelectSeq(frames, LAMBDA f : f.fd = fd /\ f.type \in {RW_MSG_ACK, RW_MSG_ERROR})

HasFrame(frames, fd, type) ==
  \E i \in 1..Len(frames) : frames[i].fd = fd /\ frames[i].type = type

\* C1: a CREATE_SIM, START_SIM or RESTART_SIM of a client that may control,
\* whose handler finds sim_state RUNNING, is answered with ERROR 2 in that
\* step, and sim_state, config, current_rep, multi_user, world and aggregate
\* are the same after the step as before it.
C1_RunningRejects ==
  [][\A c \in Clients :
       \A t \in {RW_MSG_CREATE_SIM, RW_MSG_START_SIM, RW_MSG_RESTART_SIM} :
         (ReadsRequest(c, t) /\ CanControl(c) /\ sim_state = RW_WIRE_SIM_RUNNING)
           => /\ out'.frames = send_error(c, 2)
              /\ pc'[c] = "loop"
              /\ UNCHANGED <<sim_state, cfg, current_rep, multi_user, world, results>>]_vars

\* a controlling client's START_SIM has just been refused with ERROR 2 while RUNNING
C1_Witness ==
  \E c \in Clients :
    /\ CanControl(c)
    /\ sim_state = RW_WIRE_SIM_RUNNING
    /\ out = Reply(c, RW_MSG_START_SIM, send_error(c, 2))

Before(seq, a, b) ==
  \E i, j \in 1..Len(seq) : i < j /\ seq[i] = a /\ seq[j] = b

\* C2: while a client a that registered before b is still registered, every
\* control request of b is answered with ERROR 1.
C2_SecondClientDenied ==
  [][\A a, b \in Clients : \A t \in ControlTypes :
       (Before(joined, a, b) /\ ReadsRequest(b, t))
         => out'.frames = send_error(b, 1)]_vars

\* C3: a step of a client thread that fails the capability check leaves
\* sim_state, config, current_rep, world, aggregate, the stop flag and the
\* files unchanged and enters no handler; its QUERY_STATUS is answered with
\* STATUS and its REQUEST_SNAPSHOT with a snapshot stream.
C3_NonControllerInert ==
  [][\A c \in Clients :
       (pc[c] = "loop" /\ ~CanControl(c) /\ (out'.by = c \/ pc'[c] # "loop"))
         => /\ UNCHANGED <<sim_state, cfg, current_rep, world, results, fs>>
            /\ sm'.stop_requested = sm.stop_requested
            /\ pc'[c] \in {"loop", "clearowner"}
            /\ ReadsRequest(c, RW_MSG_QUERY_STATUS)
                 => HasFrame(out'.frames, c, RW_MSG_STATUS)
            /\ ReadsRequest(c, RW_MSG_REQUEST_SNAPSHOT)
                 => HasFrame(out'.frames, c, RW_MSG_SNAPSHOT_BEGIN)]_vars

\* a client that may not control has just sent QUIT during a run, and the
\* stop flag is still clear
C3_Witness ==
  \E c \in Clients :
    /\ owner_fd >= 0 /\ owner_fd # c
    /\ out = Reply(c, RW_MSG_QUIT, send_ack(c, RW_MSG_QUIT, 0))
    /\ sim_state = RW_WIRE_SIM_RUNNING
    /\ sm.stop_requested = 0

\* C4: the step that ends the handling of a control request (or of a
\* REQUEST_SNAPSHOT or QUIT) writes exactly one ACK or ERROR to the requesting
\* connection, an ACK carries the request's type, and no other step writes an
\* ACK or ERROR to that connection; a thread at the head of its loop has no
\* request pending.
C4_OneTerminalReply ==
  [][\A c \in Clients :
       LET term == TerminalReplies(out'.frames, c) IN
         /\ IF EndsRequest(c) /\ out'.re # RW_MSG_QUERY_STATUS
            THEN /\ out'.re \in ControlTypes \cup {RW_MSG_REQUEST_SNAPSHOT, RW_MSG_QUIT}
                 /\ Len(term) = 1
                 /\ term[1].type = RW_MSG_ACK => term[1].a = out'.re
            ELSE Len(term) = 0
         /\ pc'[c] = "loop" => req'[c] = NoReq]_vars

\* a LOAD_RESULTS, handled in several steps, has just been acknowledged
C4_Witness ==
  \E c \in Clients :
    out = Reply(c, RW_MSG_LOAD_RESULTS, send_ack(c, RW_MSG_LOAD_RESULTS, 0))

\* C5: on every socket each header is the header chunk of a frame, and the
\* bytes taken as its payload are the payload chunk of that same frame: no
\* header is separated from its payload by bytes of another frame.
C5_FramingBijection ==
  \A c \in Clients :
    \A k \in 1..Len(Received(wire[c])) :
      LET f == Received(wire[c])[k] IN
        /\ f.payload = f.hdr
        /\ f.payload_len > 0 /\ k < Len(Received(wire[c])) => f.hdr_part = "payload"

\* this step is simulation thread s sending END and returning
SendsEnd(s) == sim[s].pc = "end" /\ sim'[s].pc = "none"

\* this step is simulation thread s destroying its pool and setting FINISHED
Finishes(s) == sim[s].pc = "join" /\ sim'[s].pc = "end"

\* C6: when a STOP_SIM was acknowledged after the START_SIM or RESTART_SIM of a
\* run and before its replications were complete, the run finishes with the
\* stop flag set, sim_state FINISHED and current_rep <= total_reps, and every
\* END frame it broadcasts has reason 1.
C6_StopNeverLost ==
  [][\A s \in SimIds :
       /\ (Finishes(s) /\ sim[s].stop_acked)
            => /\ sm'.stop_requested = 1
               /\ sim_state' = RW_WIRE_SIM_FINISHED
               /\ current_rep' <= cfg'.total_reps
       /\ (SendsEnd(s) /\ sim[s].stop_acked)
            => \A i \in 1..Len(out'.frames) :
                 out'.frames[i].type = RW_MSG_END => out'.frames[i].a = 1]_vars

\* every free cell has total_reps trials and every blocked cell none
Conserved ==
  \A i \in 1..results.cell_count :
    results.trials[i] = IF world_is_obstacle_idx(world, i - 1) THEN 0
                        ELSE cfg.total_reps

\* C7: when a batch completes (its thread sets FINISHED) without a stop,
\* trials[i] = total_reps for every free cell and 0 for every blocked cell.
C7_Conservation ==
  [][\A s \in SimIds :
       (Finishes(s) /\ sm.stop_requested = 0) => Conserved]_vars

\* successes <= trials, and no successes means no steps summed, in every cell
Identity(r) ==
  \A i \in 1..r.cell_count :
    /\ r.success_leq_k[i] <= r.trials[i]
    /\ r.success_leq_k[i] = 0 => r.sum_steps[i] = 0

Cleared(r) ==
  /\ r.trials = Zeros(r.cell_count)
  /\ r.sum_steps = Zeros(r.cell_count)
  /\ r.success_leq_k = Zeros(r.cell_count)

\* C8: while a batch runs and after it, successes[i] <= trials[i] and
\* successes[i] = 0 implies sum_steps[i] = 0 for every cell; a step that is not
\* a clear or re-initialisation decreases no counter.
C8_AggregateIdentity ==
  [][/\ sim_state' \in {RW_WIRE_SIM_RUNNING, RW_WIRE_SIM_FINISHED} => Identity(results')
     /\ Cleared(results') \/
          /\ results'.cell_count = results.cell_count
          /\ \A i \in 1..results.cell_count :
               /\ results'.trials[i] >= results.trials[i]
               /\ results'.sum_steps[i] >= results.sum_steps[i]
               /\ results'.success_leq_k[i] >= results.success_leq_k[i]]_vars

\* this step is client thread c destroying and re-initialising the world and
\* the aggregate (CREATE_SIM, a successful LOAD_WORLD, or LOAD_RESULTS)
Reinitialises(c) ==
  \/ pc[c] = "create" /\ pc'[c] = "loop"
  \/ pc[c] = "loadworld" /\ pc'[c] = "loop" /\ HasFrame(out'.frames, c, RW_MSG_ACK)
  \/ pc[c] = "load1" /\ pc'[c] = "load2"

\* a simulation thread has begun its run and not yet destroyed its pool
SimActive == \E s \in SimIds : sim[s].pc \in {"submit", "wait", "join"}

\* C9: no handler re-initialises the world or the aggregate while a
\* simulation thread or its workers are running.
C9_NoReinitWhileRunning ==
  [][\A c \in Clients : Reinitialises(c) => ~SimActive]_vars

\* C10: current_rep <= total_reps in every reachable state.
C10_RepBound == current_rep <= cfg.total_reps

\* this step is client thread c answering a persistence request with its
\* failure code: LOAD_WORLD with 8, LOAD_RESULTS with 15, SAVE_RESULTS with 14
FailsPersistence(c) ==
  \/ pc[c] = "loadworld" /\ pc'[c] = "loop" /\ out'.frames = send_error(c, 8)
  \/ pc[c] = "load1" /\ pc'[c] = "loop" /\ out'.frames = send_error(c, 15)
  \/ ReadsRequest(c, RW_MSG_SAVE_RESULTS) /\ out'.frames = send_error(c, 14)

\* C11: a handler that answers LOAD_WORLD with ERROR 8, LOAD_RESULTS with
\* ERROR 15 or SAVE_RESULTS with ERROR 14 leaves sim_state, config, multi_user,
\* current_rep, the world and the aggregate as they were.
C11_FailedPersistenceInert ==
  [][\A c \in Clients :
       FailsPersistence(c)
         => UNCHANGED <<sim_state, cfg, multi_user, current_rep, world, results>>]_vars

\* the code of the first guard a CREATE_SIM with payload r fails, in the order
\* permission, state conflict, parameters, probability sum; 0 when it passes
FirstFailedCreate(c, r) ==
  IF ~CanControl(c) THEN 1
  ELSE IF sim_state = RW_WIRE_SIM_RUNNING THEN 2
  ELSE IF r.width = 0 \/ r.height = 0 \/ r.k_max_steps = 0 \/ r.total_reps = 0 THEN 3
  ELSE IF ProbSum(r.probs) < 999 \/ ProbSum(r.probs) > 1001 THEN 4
  ELSE 0

\* the same for a RESTART_SIM that asks for n replications
FirstFailedRestart(c, n) ==
  IF ~CanControl(c) THEN 1
  ELSE IF sim_state = RW_WIRE_SIM_RUNNING THEN 2
  ELSE IF n = 0 THEN 3
  ELSE 0

\* C12: a CREATE_SIM answered with ERROR 3 or 4 and a RESTART_SIM answered with
\* ERROR 3 change nothing of sim_state, config, multi_user, current_rep, world
\* and aggregate, and every rejected CREATE_SIM or RESTART_SIM carries the code
\* of the first guard that fails in the order 1, 2, 3, 4.
C12_RejectedCreateInert ==
  [][\A c \in Clients :
       /\ \A t \in {RW_MSG_CREATE_SIM, RW_MSG_RESTART_SIM} :
            (ReadsRequest(c, t) /\ out'.frames \in {send_error(c, 3), send_error(c, 4)})
              => /\ UNCHANGED <<sim_state, cfg, multi_user, current_rep, world, results>>
                 /\ pc'[c] = "loop"
       /\ \A r \in CreateReqs :
            (RecvCreateSim(c, r) /\ FirstFailedCreate(c, r) # 0)
              => out'.frames = send_error(c, FirstFailedCreate(c, r))
       /\ \A n \in {0, MaxReps} :
            (RecvRestartSim(c, n) /\ FirstFailedRestart(c, n) # 0)
              => out'.frames = send_error(c, FirstFailedRestart(c, n))]_vars

\* a controlling client's CREATE_SIM with a bad probability sum has just been
\* refused with ERROR 4 outside a run
C12_Witness ==
  \E c \in Clients :
    /\ CanControl(c)
    /\ sim_state # RW_WIRE_SIM_RUNNING
    /\ out = Reply(c, RW_MSG_CREATE_SIM, send_error(c, 4))

\* C13: when a REQUEST_SNAPSHOT is handled, the ACK written to the
\* requesting connection precedes the SNAPSHOT_BEGIN written to it.
C13_AckBeforeStream ==
  [][\A c \in Clients :
       ReadsRequest(c, RW_MSG_REQUEST_SNAPSHOT)
         => \A i, j \in 1..Len(out'.frames) :
              ( /\ out'.frames[i].fd = c /\ out'.frames[i].type = RW_MSG_ACK
                /\ out'.frames[j].fd = c /\ out'.frames[j].type = RW_MSG_SNAPSHOT_BEGIN )
                => i < j]_vars

(***************************************************************************)
(* snapshot_sender.c: one snapshot streamed to one client, and the client's *)
(* assembler (client_snapshot_begin / client_snapshot_chunk)                *)
(***************************************************************************)
RW_SNAPSHOT_CHUNK_MAX == 4096
RW_SNAP_FIELD_OBSTACLES == 1
RW_SNAP_FIELD_TRIALS == 2
RW_SNAP_FIELD_SUM_STEPS == 3
RW_SNAP_FIELD_SUCC_LEQ_K == 4
SnapFields == RW_SNAP_FIELD_OBSTACLES..RW_SNAP_FIELD_SUCC_LEQ_K

\* sizeof of one element of a field's array: uint8_t, uint32_t, uint64_t, uint32_t
ElementWidth(f) ==
  CASE f = RW_SNAP_FIELD_OBSTACLES -> 1
    [] f = RW_SNAP_FIELD_TRIALS -> 4
    [] f = RW_SNAP_FIELD_SUM_STEPS -> 8
    [] f = RW_SNAP_FIELD_SUCC_LEQ_K -> 4

\* the cell counts of the worlds streamed: one cell, a field of exactly one
\* and of exactly two full chunks, and fields with a short last chunk
CellCounts == {1, 1024, 1025, 1100}
\* the memory images streamed
Images == {0, 1}

\* byte i (from 0) of field f's array in memory image m
FieldByte(m, f, i) == (m + 3 * f + i) % 251
FieldBytes(m, f, n) == [k \in 1..(n * ElementWidth(f)) |-> FieldByte(m, f, k - 1)]

\* field_bit: 1u << (field - 1)
field_bit(f) == IF f = 0 THEN 0 ELSE 2 ^ (f - 1)
\* field_included: (included_fields & bit) != 0
field_included(included, f) == f # 0 /\ (included \div field_bit(f)) % 2 = 1

\* send_field_chunks: remaining < RW_SNAPSHOT_CHUNK_MAX ? remaining : RW_SNAPSHOT_CHUNK_MAX
\* a to_copy that always fills the chunk: the variant C14 is tested against
to_copy_full(remaining) == RW_SNAPSHOT_CHUNK_MAX
to_copy(remaining) ==
  IF remaining < RW_SNAPSHOT_CHUNK_MAX THEN remaining ELSE RW_SNAPSHOT_CHUNK_MAX

\* the assembler before any SNAPSHOT_BEGIN (g_snap = {0})
NoAssembly ==
  [snapshot_id |-> 0, cell_count |-> 0, included_fields |-> 0,
   buf |-> [f \in SnapFields |-> <<>>], alloc |-> {}, ended |-> FALSE, failed |-> FALSE]

InitStream ==
  /\ CtlInit /\ env.fds = Clients
  /\ WireIdle
  /\ sid = SidIdle /\ slow = SlowIdle /\ disp = DispIdle /\ AsideIdle
  /\ \E n \in CellCounts, m \in Images :
       snap = [pc |-> "begin", cell_count |-> n, image |-> m, snapshot_id |-> 1,
               field |-> 0, offset |-> 0, sock |-> <<>>, ranges |-> <<>>,
               asm |-> NoAssembly]

StreamRest == <<ctl, wire, wthr, clients_mtx, sid, slow, disp, aside>>

\* send_snapshot_to_client: rw_send_msg(fd, RW_MSG_SNAPSHOT_BEGIN, &begin, ...)
StreamBegin ==
  /\ snap.pc = "begin"
  /\ snap' = [snap EXCEPT
       !.sock = Append(@, [type |-> RW_MSG_SNAPSHOT_BEGIN, snapshot_id |-> snap.snapshot_id,
                           cell_count |-> snap.cell_count,
                           included_fields |-> field_bit(RW_SNAP_FIELD_OBSTACLES)
                                               + field_bit(RW_SNAP_FIELD_TRIALS)
                                               + field_bit(RW_SNAP_FIELD_SUM_STEPS)
                                               + field_bit(RW_SNAP_FIELD_SUCC_LEQ_K)]),
       !.pc = "chunks", !.field = RW_SNAP_FIELD_OBSTACLES, !.offset = 0]
  /\ UNCHANGED StreamRest

\* send_field_chunks: one pass of the while loop
StreamChunk ==
  /\ snap.pc = "chunks"
  /\ LET total_bytes == snap.cell_count * ElementWidth(snap.field)
         n == to_copy(total_bytes - snap.offset)
     IN /\ snap.offset < total_bytes
        /\ snap' = [snap EXCEPT
             !.sock = Append(@, [type |-> RW_MSG_SNAPSHOT_CHUNK,
                                 snapshot_id |-> snap.snapshot_id, field |-> snap.field,
                                 offset_bytes |-> snap.offset, data_len |-> n,
                                 data |-> [k \in 1..n |->
                                             FieldByte(snap.image, snap.field,
                                                       snap.offset + k - 1)]]),
             !.ranges = Append(@, [field |-> snap.field, offset_bytes |-> snap.offset,
                                   data_len |-> n]),
             !.offset = @ + n]
  /\ UNCHANGED StreamRest

\* send_field_chunks returns 0: the next field, or SNAPSHOT_END after the last
StreamFieldDone ==
  /\ snap.pc = "chunks"
  /\ snap.offset >= snap.cell_count * ElementWidth(snap.field)
  /\ snap' = IF snap.field < RW_SNAP_FIELD_SUCC_LEQ_K
             THEN [snap EXCEPT !.field = @ + 1, !.offset = 0]
             ELSE [snap EXCEPT !.pc = "end"]
  /\ UNCHANGED StreamRest

\* send_snapshot_to_client: rw_send_msg(fd, RW_MSG_SNAPSHOT_END, NULL, 0)
StreamEnd ==
  /\ snap.pc = "end"
  /\ snap' = [snap EXCEPT !.sock = Append(@, [type |-> RW_MSG_SNAPSHOT_END]), !.pc = "done"]
  /\ UNCHANGED StreamRest

\* client_snapshot_begin: the previous assembly is freed, the included fields
\* are allocated zero-filled
client_snapshot_begin(begin) ==
  [snapshot_id |-> begin.snapshot_id, cell_count |-> begin.cell_count,
   included_fields |-> begin.included_fields,
   buf |-> [f \in SnapFields |->
              IF field_included(begin.included_fields, f)
              THEN [k \in 1..(begin.cell_count * ElementWidth(f)) |-> 0] ELSE <<>>],
   alloc |-> {f \in SnapFields : field_included(begin.included_fields, f)},
   ended |-> FALSE, failed |-> FALSE]

\* client_snapshot_chunk: stale ids are ignored; the chunk is bounds-checked
\* in bytes and copied to its offset
client_snapshot_chunk(a, chunk) ==
  LET total == a.cell_count * ElementWidth(chunk.field)
      offset == chunk.offset_bytes
      len == chunk.data_len
  IN IF chunk.snapshot_id # a.snapshot_id THEN a
     ELSE IF chunk.field \notin a.alloc THEN [a EXCEPT !.failed = TRUE]
     ELSE IF offset > total \/ len > total \/ offset + len > total
     THEN [a EXCEPT !.failed = TRUE]
     ELSE [a EXCEPT !.buf[chunk.field] =
             [k \in 1..total |-> IF k > offset /\ k <= offset + len
                                 THEN chunk.data[k - offset] ELSE @[k]]]

\* the client's reader takes the next message of the stream off the socket
Assemble ==
  /\ snap.pc # "off"
  /\ snap.sock # <<>>
  /\ LET msg == Head(snap.sock) IN
       snap' = [snap EXCEPT
         !.sock = Tail(@),
         !.asm = IF msg.type = RW_MSG_SNAPSHOT_BEGIN THEN client_snapshot_begin(msg)
                 ELSE IF msg.type = RW_MSG_SNAPSHOT_CHUNK THEN client_snapshot_chunk(@, msg)
                 ELSE [@ EXCEPT !.ended = TRUE]]
  /\ UNCHANGED StreamRest

NextStream == StreamBegin \/ StreamChunk \/ StreamFieldDone \/ StreamEnd \/ Assemble

SpecStream == InitStream /\ [][NextStream]_vars

\* the chunk ranges emitted so far for field f, in the order of emission
RangesOf(f) == SelectSeq(snap.ranges, LAMBDA r : r.field = f)

\* the ranges rs are consecutive from 0, each of 1..RW_SNAPSHOT_CHUNK_MAX bytes
Consecutive(rs) ==
  \A k \in 1..Len(rs) :
    /\ rs[k].data_len > 0 /\ rs[k].data_len <= RW_SNAPSHOT_CHUNK_MAX
    /\ rs[k].offset_bytes = IF k = 1 THEN 0
                            ELSE rs[k - 1].offset_bytes + rs[k - 1].data_len

\* the byte after the last range of rs
Covered(rs) == IF rs = <<>> THEN 0 ELSE rs[Len(rs)].offset_bytes + rs[Len(rs)].data_len

MaxSnapshots == 2
\* the value of counter before the first call (static uint32_t counter = 1)
FirstSnapshotId == 1

InitSid ==
  /\ CtlInit /\ env.fds = Clients
  /\ WireIdle
  /\ snap = SnapIdle /\ slow = SlowIdle /\ disp = DispIdle /\ AsideIdle
  /\ sid = [pc |-> "on", counter |-> FirstSnapshotId, mtx |-> 0, streams |-> <<>>,
            thr |-> [c \in Clients |-> [pc |-> "loop", tmp |-> 0, id |-> 0, served |-> 0]]]

SidRest == <<ctl, wire, wthr, clients_mtx, snap, slow, disp, aside>>

\* next_snapshot_id, counter++: the read of counter (no lock, not atomic)
SidLoad(c) ==
  /\ sid.pc = "on"
  /\ sid.thr[c].pc = "loop"
  /\ sid.thr[c].served < MaxSnapshots
  /\ sid' = [sid EXCEPT !.thr[c].pc = "store", !.thr[c].tmp = sid.counter]
  /\ UNCHANGED SidRest

\* next_snapshot_id, counter++: the write of counter, and the return (the
\* counter stays far below 2^32 within MaxSnapshots calls per thread)
SidStore(c) ==
  /\ sid.pc = "on"
  /\ sid.thr[c].pc = "store"
  /\ sid' = [sid EXCEPT !.counter = sid.thr[c].tmp + 1,
                        !.thr[c].id = sid.thr[c].tmp, !.thr[c].pc = "lock"]
  /\ UNCHANGED SidRest

\* snapshot_broadcast: server_context_for_each_client takes clients_mtx and
\* the stream with bctx.snapshot_id starts
SidBroadcast(c) ==
  /\ sid.pc = "on"
  /\ sid.thr[c].pc = "lock"
  /\ sid.mtx = 0
  /\ sid' = [sid EXCEPT !.mtx = c, !.streams = Append(@, sid.thr[c].id),
                        !.thr[c].pc = "stream"]
  /\ UNCHANGED SidRest

\* server_context_for_each_client returns; the handler sends its ACK
SidDone(c) ==
  /\ sid.pc = "on"
  /\ sid.thr[c].pc = "stream"
  /\ sid' = [sid EXCEPT !.mtx = 0, !.thr[c].pc = "loop", !.thr[c].served = @ + 1]
  /\ UNCHANGED SidRest

NextSid == \E c \in Clients : SidLoad(c) \/ SidStore(c) \/ SidBroadcast(c) \/ SidDone(c)

SpecSid == InitSid /\ [][NextSid]_vars

\* C15: every snapshot broadcast carries an id strictly greater than the id of
\* every broadcast that started before it.
C15_SnapshotIdsIncrease ==
  sid.pc = "on" =>
    \A i, j \in 1..Len(sid.streams) : i < j => sid.streams[i] < sid.streams[j]

(***************************************************************************)
(* Broadcasts towards a client that has stopped reading: the simulation     *)
(* thread's PROGRESS and END (sim_manager.c, server_ipc.c) and a handler's  *)
(* snapshot broadcast, with a bounded socket buffer per client              *)
(***************************************************************************)
\* frames a client's socket buffer holds before a blocking write blocks
SockCap == 2
\* replications of the batch
SlowReps == 2
\* the client that keeps reading and the one that has stopped
Reader == 1
Stalled == 2
SlowThreads == {"sim", "hnd"}

\* rw_send_msg on a socket whose peer may not read: the write completes only
\* when the buffer has room
CanWrite(buf) == Len(buf) < SockCap
\* rw_send_msg_noblock (MSG_DONTWAIT): the frame is written when there is
\* room and dropped with -1 otherwise
rw_send_msg_noblock(buf, type) == IF CanWrite(buf) THEN Append(buf, type) ELSE buf

\* the rw_send_msg calls a thread makes inside server_context_for_each_client
SlowSends(t) ==
  IF t = "sim"
  THEN <<[fd |-> Reader, type |-> RW_MSG_PROGRESS], [fd |-> Stalled, type |-> RW_MSG_PROGRESS]>>
  ELSE <<[fd |-> Reader, type |-> RW_MSG_SNAPSHOT_BEGIN],
         [fd |-> Reader, type |-> RW_MSG_SNAPSHOT_END],
         [fd |-> Stalled, type |-> RW_MSG_SNAPSHOT_BEGIN],
         [fd |-> Stalled, type |-> RW_MSG_SNAPSHOT_END]>>

InitSlow ==
  /\ CtlInit /\ env.fds = Clients
  /\ WireIdle
  /\ snap = SnapIdle /\ sid = SidIdle /\ disp = DispIdle /\ AsideIdle
  /\ slow = [pc |-> "on", mtx |-> "", buf |-> [c \in Clients |-> <<>>],
             sim_state |-> RW_WIRE_SIM_RUNNING, rep |-> 0,
             thr |-> [t \in SlowThreads |->
                        [pc |-> IF t = "sim" THEN "run" ELSE "loop", i |-> 0]]]

SlowRest == <<ctl, wire, wthr, clients_mtx, snap, sid, disp, aside>>

\* sim_thread_main: a replication's jobs are submitted and waited for, the
\* progress is set
SlowRep ==
  /\ slow.pc = "on"
  /\ slow.thr["sim"].pc = "run"
  /\ slow.rep < SlowReps
  /\ slow' = [slow EXCEPT !.rep = @ + 1, !.thr["sim"].pc = "lock"]
  /\ UNCHANGED SlowRest

\* the handler of the reading client receives REQUEST_SNAPSHOT
SlowRequest ==
  /\ slow.pc = "on"
  /\ slow.thr["hnd"].pc = "loop"
  /\ slow' = [slow EXCEPT !.thr["hnd"].pc = "lock"]
  /\ UNCHANGED SlowRest

\* server_context_for_each_client: pthread_mutex_lock(&ctx->clients_mtx)
SlowLock(t) ==
  /\ slow.pc = "on"
  /\ slow.thr[t].pc = "lock"
  /\ slow.mtx = ""
  /\ slow' = [slow EXCEPT !.mtx = t, !.thr[t] = [pc |-> "send", i |-> 1]]
  /\ UNCHANGED SlowRest

\* send_progress_fn / send_snapshot_to_client: a blocking rw_send_msg
SlowWrite(t) ==
  /\ slow.pc = "on"
  /\ slow.thr[t].pc = "send"
  /\ slow.thr[t].i <= Len(SlowSends(t))
  /\ LET s == SlowSends(t)[slow.thr[t].i] IN
       /\ CanWrite(slow.buf[s.fd])
       /\ slow' = [slow EXCEPT !.buf[s.fd] = Append(@, s.type), !.thr[t].i = @ + 1]
  /\ UNCHANGED SlowRest

\* server_context_for_each_client: pthread_mutex_unlock; the simulation thread
\* goes on to its next replication, the handler to its ACK and its loop
SlowUnlock(t) ==
  /\ slow.pc = "on"
  /\ slow.thr[t].pc = "send"
  /\ slow.thr[t].i > Len(SlowSends(t))
  /\ slow' = [slow EXCEPT !.mtx = "",
                          !.thr[t].pc = IF t = "hnd" THEN "served"
                                        ELSE IF slow.rep < SlowReps THEN "run" ELSE "finish"]
  /\ UNCHANGED SlowRest

\* sim_thread_main after the loop: FINISHED, then on_end broadcasts END with
\* rw_send_msg_noblock under clients_mtx
SlowEnd ==
  /\ slow.pc = "on"
  /\ slow.thr["sim"].pc = "finish"
  /\ slow.mtx = ""
  /\ slow' = [slow EXCEPT !.sim_state = RW_WIRE_SIM_FINISHED,
                          !.buf = [c \in Clients |-> rw_send_msg_noblock(slow.buf[c], RW_MSG_END)],
                          !.thr["sim"].pc = "done"]
  /\ UNCHANGED SlowRest

\* the reading client takes a frame off its socket; the stalled one never does
SlowDrain ==
  /\ slow.pc = "on"
  /\ slow.buf[Reader] # <<>>
  /\ slow' = [slow EXCEPT !.buf[Reader] = Tail(@)]
  /\ UNCHANGED SlowRest

NextSlow ==
  \/ SlowRep \/ SlowRequest \/ SlowEnd \/ SlowDrain
  \/ \E t \in SlowThreads : SlowLock(t) \/ SlowWrite(t) \/ SlowUnlock(t)

SpecSlow == InitSlow /\ [][NextSlow]_vars

\* thread t is inside a blocking write to the stalled client whose buffer is full
BlockedOnStalled(t) ==
  /\ slow.thr[t].pc = "send"
  /\ slow.thr[t].i <= Len(SlowSends(t))
  /\ SlowSends(t)[slow.thr[t].i].fd = Stalled
  /\ ~CanWrite(slow.buf[Stalled])

\* C16: no thread holds clients_mtx while it is blocked in a write to a client
\* that has stopped reading (so the simulation thread is never held up by it).
C16_NoBlockedWriteUnderLock ==
  slow.pc = "on" => \A t \in SlowThreads : ~(slow.mtx = t /\ BlockedOnStalled(t))

(***************************************************************************)
(* The client dispatcher (client_dispatcher.c): one reader thread, callers  *)
(* of dispatcher_send_and_wait, and the server end of the socket.  Every    *)
(* step is one critical section under g_d.mtx                               *)
(***************************************************************************)
EPIPE == 32
ENOMEM == 12
Callers == {1, 2}
\* calls each caller makes
MaxCalls == 1
\* asynchronous PROGRESS frames the server sends
MaxNotify == 1
\* timeout_ms of a call: 0 waits forever, the client's requests use 5000
Timeouts == {0, 5000}
\* the requests of client_api.c with their expected[] lists
Calls == { [type |-> RW_MSG_QUERY_STATUS, expected |-> {RW_MSG_STATUS, RW_MSG_ERROR}],
           [type |-> RW_MSG_START_SIM, expected |-> {RW_MSG_ACK, RW_MSG_ERROR}] }
NoHdr == [type |-> 0, id |-> 0]
NoCall == [pc |-> "idle", n |-> 0, id |-> 0, type |-> 0, expected |-> {}, timeout_ms |-> 0,
           rc |-> 0, why |-> "", out_hdr |-> NoHdr, out_payload |-> 0]

\* dispatcher_start: the state the reader thread starts with
InitDisp ==
  /\ CtlInit /\ env.fds = Clients
  /\ WireIdle
  /\ snap = SnapIdle /\ sid = SidIdle /\ slow = SlowIdle /\ AsideIdle
  /\ disp = [pc |-> "on", running |-> 1, stop |-> 0, waiting |-> 0, expected |-> {},
             resp_ready |-> 0, resp_hdr |-> NoHdr, resp_payload |-> 0, last_err |-> 0,
             rdr |-> "loop", sock |-> <<>>, reqs |-> <<>>, next_id |-> 1, notified |-> 0,
             thr |-> [k \in Callers |-> NoCall]]

DispRest == <<ctl, wire, wthr, clients_mtx, snap, sid, slow, aside>>

type_expected(d, t) == t \in d.expected

clear_response_slot_locked(d) == [d EXCEPT !.resp_ready = 0, !.resp_hdr = NoHdr, !.resp_payload = 0]

\* pthread_cond_broadcast(&g_d.cv): every thread blocked on the condition
\* variable leaves its wait and will re-acquire the mutex
cond_broadcast_none(d) == d
cond_broadcast(d) ==
  [d EXCEPT !.thr = [k \in Callers |->
     IF d.thr[k].pc = "queued" THEN [d.thr[k] EXCEPT !.pc = "lock"]
     ELSE IF d.thr[k].pc = "wait" THEN [d.thr[k] EXCEPT !.pc = "woken"]
     ELSE d.thr[k]]]

\* the end of dispatcher_send_and_wait: the response is handed over when
\* rc == 0 and the slot is ready, *out_payload is NULL otherwise; waiting is
\* cleared and the condition variable broadcast
Leave(d, k, rc, why) ==
  LET took == rc = 0 /\ d.resp_ready = 1
      d1 == IF took
            THEN clear_response_slot_locked(
                   [d EXCEPT !.thr[k].out_hdr = d.resp_hdr, !.thr[k].out_payload = d.resp_payload])
            ELSE [d EXCEPT !.thr[k].out_payload = 0]
      d2 == [d1 EXCEPT !.waiting = 0, !.thr[k].pc = "ret", !.thr[k].rc = rc, !.thr[k].why = why]
  IN cond_broadcast(d2)

\* one pass of the wait loop with the mutex held
WaitLoop(d, k) ==
  IF d.resp_ready = 1 THEN Leave(d, k, 0, "ok")
  ELSE IF d.last_err # 0 \/ d.running = 0 THEN Leave(d, k, -1, "error")
  ELSE [d EXCEPT !.thr[k].pc = "wait"]

\* dispatcher_send_and_wait is called: the arguments and g_d.running are
\* checked before the mutex is taken
DispCall(k, call, t) ==
  /\ disp.pc = "on"
  /\ disp.thr[k].pc \in {"idle", "ret"}
  /\ disp.thr[k].n < MaxCalls
  /\ LET c == [NoCall EXCEPT !.n = disp.thr[k].n + 1, !.id = disp.next_id, !.type = call.type,
                             !.expected = call.expected, !.timeout_ms = t]
     IN disp' = [disp EXCEPT !.next_id = @ + 1,
                   !.thr[k] = IF disp.running = 0
                              THEN [c EXCEPT !.pc = "ret", !.rc = -1, !.why = "args"]
                              ELSE [c EXCEPT !.pc = "lock"]]
  /\ UNCHANGED DispRest

\* the mutex is taken (or re-taken after a wake-up): while (g_d.waiting) the
\* caller waits on the condition variable
DispQueue(k) ==
  /\ disp.pc = "on"
  /\ disp.thr[k].pc = "lock"
  /\ disp.waiting = 1
  /\ disp' = [disp EXCEPT !.thr[k].pc = "queued"]
  /\ UNCHANGED DispRest

\* a variant that does not wait for the active call
DispBegin_unserialized(k, sent) ==
  /\ disp.pc = "on"
  /\ disp.thr[k].pc = "lock"
  /\ LET d1 == clear_response_slot_locked(
                 [disp EXCEPT !.waiting = 1, !.expected = disp.thr[k].expected])
     IN disp' = IF ~sent THEN cond_broadcast([d1 EXCEPT !.waiting = 0, !.thr[k].pc = "ret",
                                                  !.thr[k].rc = -1, !.thr[k].why = "send"])
                ELSE WaitLoop([d1 EXCEPT !.reqs = Append(@, [type |-> disp.thr[k].type,
                                                               id |-> disp.thr[k].id])], k)
  /\ UNCHANGED DispRest

\* waiting = 1, expected[] installed, the slot cleared, the request sent with
\* the mutex held, then the first pass of the wait loop
DispBegin(k, sent) ==
  /\ disp.pc = "on"
  /\ disp.thr[k].pc = "lock"
  /\ disp.waiting = 0
  /\ LET d1 == clear_response_slot_locked(
                 [disp EXCEPT !.waiting = 1, !.expected = disp.thr[k].expected])
     IN disp' = IF ~sent THEN cond_broadcast([d1 EXCEPT !.waiting = 0, !.thr[k].pc = "ret",
                                                  !.thr[k].rc = -1, !.thr[k].why = "send"])
                ELSE WaitLoop([d1 EXCEPT !.reqs = Append(@, [type |-> disp.thr[k].type,
                                                               id |-> disp.thr[k].id])], k)
  /\ UNCHANGED DispRest

\* pthread_cond_wait / pthread_cond_timedwait returns 0 after a broadcast
DispWoken(k) ==
  /\ disp.pc = "on"
  /\ disp.thr[k].pc = "woken"
  /\ disp' = WaitLoop(disp, k)
  /\ UNCHANGED DispRest

\* the timed wait runs out; the caller has yet to re-acquire the mutex
DispTimeout(k) ==
  /\ disp.pc = "on"
  /\ disp.thr[k].pc = "wait"
  /\ disp.thr[k].timeout_ms # 0
  /\ disp' = [disp EXCEPT !.thr[k].pc = "timedout"]
  /\ UNCHANGED DispRest

\* pthread_cond_timedwait returns ETIMEDOUT: rc = -1 and the loop is left
DispExpire(k) ==
  /\ disp.pc = "on"
  /\ disp.thr[k].pc = "timedout"
  /\ disp' = Leave(disp, k, -1, "timeout")
  /\ UNCHANGED DispRest

\* the server's handler answers the oldest request
ServerReply(t) ==
  /\ disp.pc = "on"
  /\ disp.reqs # <<>>
  /\ LET r == Head(disp.reqs) IN
       /\ t \in (IF r.type = RW_MSG_QUERY_STATUS THEN {RW_MSG_STATUS, RW_MSG_ERROR}
                 ELSE {RW_MSG_ACK, RW_MSG_ERROR})
       /\ disp' = [disp EXCEPT !.reqs = Tail(@), !.sock = Append(@, [type |-> t, id |-> r.id])]
  /\ UNCHANGED DispRest

\* the simulation thread broadcasts PROGRESS
ServerNotify ==
  /\ disp.pc = "on"
  /\ disp.notified < MaxNotify
  /\ disp' = [disp EXCEPT !.notified = @ + 1,
                          !.sock = Append(@, [type |-> RW_MSG_PROGRESS, id |-> 0])]
  /\ UNCHANGED DispRest

\* reader_main reads one message and routes it: notifications are dropped, a
\* response is latched for the waiting caller or dropped
ReaderRecv ==
  /\ disp.pc = "on"
  /\ disp.rdr = "loop"
  /\ disp.sock # <<>>
  /\ LET m == Head(disp.sock)
         d1 == [disp EXCEPT !.sock = Tail(@)] IN
     disp' = IF m.type = RW_MSG_PROGRESS THEN d1
             ELSE IF d1.waiting = 1 /\ d1.resp_ready = 0 /\ type_expected(d1, m.type)
             THEN cond_broadcast([clear_response_slot_locked(d1) EXCEPT
                               !.resp_hdr = m, !.resp_payload = m.id, !.resp_ready = 1])
             ELSE d1
  /\ UNCHANGED DispRest

\* malloc of the payload fails: the payload is drained, last_err = ENOMEM
ReaderNoMem ==
  /\ disp.pc = "on"
  /\ disp.rdr = "loop"
  /\ disp.sock # <<>>
  /\ disp' = cond_broadcast([disp EXCEPT !.sock = Tail(@), !.last_err = ENOMEM])
  /\ UNCHANGED DispRest

\* rw_recv_hdr or rw_recv_payload fails
ReaderFail ==
  /\ disp.pc = "on"
  /\ disp.rdr = "loop"
  /\ disp' = cond_broadcast([disp EXCEPT !.last_err = EPIPE, !.stop = 1, !.rdr = "exit"])
  /\ UNCHANGED DispRest

\* after the loop: running = 0 and a broadcast
ReaderExit ==
  /\ disp.pc = "on"
  /\ disp.rdr = "exit"
  /\ disp' = cond_broadcast([disp EXCEPT !.running = 0, !.rdr = "done"])
  /\ UNCHANGED DispRest

CallerStep(k) == DispQueue(k) \/ DispWoken(k) \/ DispExpire(k) \/ \E sent \in BOOLEAN : DispBegin(k, sent)

NextDisp ==
  \/ \E k \in Callers : \/ \E call \in Calls, t \in Timeouts : DispCall(k, call, t)
                        \/ CallerStep(k)
                        \/ DispTimeout(k)
  \/ \E t \in {RW_MSG_STATUS, RW_MSG_ACK, RW_MSG_ERROR} : ServerReply(t)
  \/ ServerNotify \/ ReaderRecv \/ ReaderNoMem \/ ReaderFail \/ ReaderExit

SpecDisp == InitDisp /\ [][NextDisp]_vars

\* the scheduler runs every thread that can run; a timed wait need not expire
SpecDispFair ==
  SpecDisp /\ WF_vars(ReaderExit) /\ \A k \in Callers : WF_vars(CallerStep(k))

\* callers between waiting = 1 and its clearing
InFlight == {k \in Callers : disp.thr[k].pc \in {"wait", "woken", "timedout"}}

\* C17: at most one dispatcher_send_and_wait call is between setting waiting
\* and clearing it, and the expected[] set installed is that call's own.
C17_OneInFlight ==
  disp.pc = "on" =>
    /\ Cardinality(InFlight) <= 1
    /\ disp.waiting = 1 <=> InFlight # {}
    /\ \A k \in InFlight : disp.expected = disp.thr[k].expected

C17_Witness ==
  /\ disp.pc = "on"
  /\ \E k \in InFlight : \E j \in Callers : disp.thr[j].pc = "queued" /\ disp.thr[k].pc = "wait"

\* C18: a call that returns 0 returns the reply to its own request, of a type
\* in its own expected[] set.
C18_OwnReply ==
  disp.pc = "on" =>
    \A k \in Callers :
      (disp.thr[k].pc = "ret" /\ disp.thr[k].rc = 0) =>
         /\ disp.thr[k].out_hdr.id = disp.thr[k].id
         /\ disp.thr[k].out_hdr.type \in disp.thr[k].expected

\* C19: a return of -1 after a timeout or a reader error leaves resp_ready = 0
\* with no payload held, *out_payload NULL, waiting cleared and nobody left
\* blocked on the condition variable.
C19_FailureLeavesSlotEmpty ==
  [][disp.pc = "on" =>
      \A k \in Callers :
        (disp.thr[k].pc # "ret" /\ disp'.thr[k].pc = "ret" /\ disp'.thr[k].rc = -1
           /\ disp'.thr[k].why \in {"timeout", "error"}) =>
          /\ disp'.resp_ready = 0 /\ disp'.resp_payload = 0
          /\ disp'.thr[k].out_payload = 0
          /\ disp'.waiting = 0
          /\ \A j \in Callers : disp'.thr[j].pc \notin {"queued", "wait"}]_vars

\* a caller that the read failure concerns: queued, about to take the mutex,
\* or waiting for a response that has not been latched
Stranded(k) ==
  /\ disp.pc = "on" /\ disp.last_err = EPIPE /\ disp.stop = 1
  /\ \/ disp.thr[k].pc \in {"queued", "lock", "timedout"}
     \/ disp.thr[k].pc \in {"wait", "woken"} /\ disp.resp_ready = 0

AwaitsOwnerTest(c) == pc[c] \in {"registered", "setowner"}

\* C21: the owner is cleared when the owner's connection ends, and a client
\* becomes owner only while the owner is unset and only if no client that
\* registered before it is still waiting to be made owner.
C21_OwnerHandOff ==
  [][/\ \A c \in Clients :
          (pc[c] = "clearowner" /\ pc'[c] = "closed" /\ owner_fd = c) => owner_fd' = NoOwner
     /\ \A c \in Clients :
          (owner_fd # c /\ owner_fd' = c) =>
             /\ owner_fd = NoOwner
             /\ \A b \in Clients \ {c} : AwaitsOwnerTest(b) => ~Before(joined, b, c)]_vars

\* C22: while a client is serving requests, no two registered clients both
\* pass server_context_client_can_control.
C22_OneController ==
  \A a, b \in Clients :
    (a # b /\ pc[a] = "loop" /\ {a, b} \subseteq Registered(clients))
      => ~(CanControl(a) /\ CanControl(b))

(***************************************************************************)
(* Connections and broadcasts (server_ipc.c client_thread and handle_join,  *)
(* server_context.c, protocol.c): clients connect with some first message,  *)
(* may close their end at any time, and a broadcasting thread writes one    *)
(* frame to every registered fd under clients_mtx                           *)
(***************************************************************************)
RW_MSG_JOIN == 1
\* sizeof(rw_join_t)
JoinLen == 4
\* broadcasts the simulation thread and the handlers make
MaxBroadcasts == 2
\* the first message of a connection: type 0 stands for a connection that
\* is closed before it sent a header
FirstMsgs == { [type |-> RW_MSG_JOIN, len |-> JoinLen], [type |-> RW_MSG_JOIN, len |-> 0],
               [type |-> RW_MSG_QUERY_STATUS, len |-> JoinLen], [type |-> 0, len |-> 0] }
\* the frames written with rw_send_msg inside server_context_for_each_client
BroadcastTypes == {RW_MSG_PROGRESS, RW_MSG_SNAPSHOT_BEGIN}

InitConn ==
  /\ CtlInit /\ env.fds = Clients
  /\ WireIdle
  /\ snap = SnapIdle /\ sid = SidIdle /\ slow = SlowIdle /\ disp = DispIdle
  /\ menu = MenuIdle /\ walk = WalkIdle /\ gen = GenIdle /\ MoreIdle
  /\ conn = [pc |-> "on", alive |-> 1, clients |-> [i \in 1..NSlots |-> -1], owner |-> NoOwner,
             thr |-> [c \in Clients |-> "closed"],
             first |-> [c \in Clients |-> [type |-> 0, len |-> 0]],
             peer |-> [c \in Clients |-> "shut"],
             got |-> [c \in Clients |-> <<>>],
             bc |-> [pc |-> "idle", i |-> 0, type |-> 0], nb |-> 0]

ConnRest == <<ctl, wire, wthr, clients_mtx, snap, sid, slow, disp, menu, walk, gen, more>>

\* handle_join up to the WELCOME: 0 when the first message is a JOIN of the
\* right length, -1 otherwise
handle_join_nolen(first) == IF first.type # RW_MSG_JOIN THEN -1 ELSE 0
handle_join(first) ==
  IF first.type = 0 THEN -1
  ELSE IF first.type # RW_MSG_JOIN THEN -1
  ELSE IF first.len # JoinLen THEN -1
  ELSE 0

\* accept_loop: a connection arrives and its thread is created
ConnAccept(c, first) ==
  /\ conn.pc = "on" /\ conn.alive = 1
  /\ conn.thr[c] = "closed"
  /\ conn' = [conn EXCEPT !.thr[c] = "accepted", !.first[c] = first,
                          !.peer[c] = IF first.type = 0 THEN "shut" ELSE "open",
                          !.got[c] = <<>>]
  /\ UNCHANGED ConnRest

\* the client closes its end of the socket
PeerClose(c) ==
  /\ conn.pc = "on"
  /\ conn.thr[c] # "closed"
  /\ conn.peer[c] = "open"
  /\ conn' = [conn EXCEPT !.peer[c] = "shut"]
  /\ UNCHANGED ConnRest

\* client_thread: handle_join succeeds with the WELCOME written, the fd is
\* registered and made owner when there is none
ConnJoin(c) ==
  /\ conn.pc = "on" /\ conn.alive = 1
  /\ conn.thr[c] = "accepted"
  /\ handle_join(conn.first[c]) = 0
  /\ conn.peer[c] = "open"
  /\ conn.bc.pc = "idle"
  /\ FreeSlots(conn.clients) # {}
  /\ conn' = [conn EXCEPT !.got[c] = Append(@, RW_MSG_WELCOME),
                          !.clients = server_context_add_client(@, c),
                          !.owner = IF @ < 0 THEN c ELSE @,
                          !.thr[c] = "loop"]
  /\ UNCHANGED ConnRest

\* client_thread: handle_join returns -1 (or the WELCOME cannot be written, or
\* there is no free slot): close(client_fd) and return
ConnReject(c) ==
  /\ conn.pc = "on" /\ conn.alive = 1
  /\ conn.thr[c] = "accepted"
  /\ \/ handle_join(conn.first[c]) # 0
     \/ conn.peer[c] = "shut"
     \/ FreeSlots(conn.clients) = {}
  /\ conn' = [conn EXCEPT !.thr[c] = "closed", !.peer[c] = "shut"]
  /\ UNCHANGED ConnRest

\* client_thread: a read fails; server_context_remove_client, the owner is
\* cleared if it was this fd, close(client_fd)
ConnRecvFail(c) ==
  /\ conn.pc = "on" /\ conn.alive = 1
  /\ conn.thr[c] = "loop"
  /\ conn.bc.pc = "idle"
  /\ conn' = [conn EXCEPT !.clients = server_context_remove_client(@, c),
                          !.owner = IF @ = c THEN NoOwner ELSE @,
                          !.thr[c] = "closed", !.peer[c] = "shut"]
  /\ UNCHANGED ConnRest

\* server_context_for_each_client: the lock is taken for a broadcast
BcastBegin(t) ==
  /\ conn.pc = "on" /\ conn.alive = 1
  /\ conn.bc.pc = "idle"
  /\ conn.nb < MaxBroadcasts
  /\ conn' = [conn EXCEPT !.bc = [pc |-> "iter", i |-> 1, type |-> t], !.nb = @ + 1]
  /\ UNCHANGED ConnRest

\* the fd of the slot the broadcast has reached, -1 for a free slot
BcastTarget == IF conn.bc.pc = "iter" /\ conn.bc.i <= NSlots THEN conn.clients[conn.bc.i] ELSE -1

\* a free slot is passed over, or rw_send_msg writes the frame to the fd
BcastWrite ==
  /\ conn.pc = "on" /\ conn.alive = 1
  /\ conn.bc.pc = "iter" /\ conn.bc.i <= NSlots
  /\ BcastTarget # -1 => conn.peer[BcastTarget] = "open"
  /\ conn' = [conn EXCEPT !.bc.i = @ + 1,
                          !.got = IF BcastTarget = -1 THEN @
                                  ELSE [@ EXCEPT ![BcastTarget] = Append(@, conn.bc.type)]]
  /\ UNCHANGED ConnRest

\* write() on a socket whose peer has closed fails and rw_send_msg returns -1;
\* the callback ignores it and the loop goes on
BcastWriteFails ==
  /\ conn.pc = "on" /\ conn.alive = 1
  /\ BcastTarget # -1
  /\ conn.peer[BcastTarget] = "shut"
  /\ conn' = [conn EXCEPT !.bc.i = @ + 1]
  /\ UNCHANGED ConnRest

\* write() on a socket whose peer has closed raises SIGPIPE, whose default
\* action (server_main.c installs a handler for SIGINT only) ends the process
BcastSigpipe ==
  /\ conn.pc = "on" /\ conn.alive = 1
  /\ BcastTarget # -1
  /\ conn.peer[BcastTarget] = "shut"
  /\ conn' = [conn EXCEPT !.alive = 0]
  /\ UNCHANGED ConnRest

\* server_context_for_each_client: the last slot is done, the lock released
BcastEnd ==
  /\ conn.pc = "on" /\ conn.alive = 1
  /\ conn.bc.pc = "iter" /\ conn.bc.i > NSlots
  /\ conn' = [conn EXCEPT !.bc = [pc |-> "idle", i |-> 0, type |-> 0]]
  /\ UNCHANGED ConnRest

NextConn ==
  \/ \E c \in Clients : \/ \E first \in FirstMsgs : ConnAccept(c, first)
                        \/ PeerClose(c) \/ ConnJoin(c) \/ ConnReject(c) \/ ConnRecvFail(c)
  \/ \E t \in BroadcastTypes : BcastBegin(t)
  \/ BcastWrite \/ BcastWriteFails \/ BcastSigpipe \/ BcastEnd

SpecConn == InitConn /\ [][NextConn]_vars

\* C23: a client whose connection fails is removed and nothing else changes
\* in the registry (the owner is cleared if it was that client), and a
\* broadcast write to a client that has gone fails without ending the
\* broadcast: the loop goes on to the next slot.
C23_IoErrorIsLocal ==
  [][conn.pc = "on" =>
      /\ \A c \in Clients :
           (conn.thr[c] = "loop" /\ conn'.thr[c] = "closed") =>
              /\ Registered(conn'.clients) = Registered(conn.clients) \ {c}
              /\ conn'.owner = IF conn.owner = c THEN NoOwner ELSE conn.owner
      /\ (BcastTarget # -1 /\ conn.peer[BcastTarget] = "shut"
            /\ (conn'.bc # conn.bc \/ conn'.alive # conn.alive)) =>
              (conn'.alive = 1 /\ conn'.bc.pc = "iter" /\ conn'.bc.i = conn.bc.i + 1)]_vars

\* C24: a connection enters the registry only in the step that wrote its
\* WELCOME, after a first message JOIN of length sizeof(rw_join_t); with any
\* other first message it is closed, and closing an unregistered connection
\* leaves the registry and the owner as they were.
C24_JoinFirst ==
  [][conn.pc = "on" =>
      \A c \in Clients :
        /\ (c \notin Registered(conn.clients) /\ c \in Registered(conn'.clients)) =>
             /\ conn.first[c] = [type |-> RW_MSG_JOIN, len |-> JoinLen]
             /\ conn'.got[c] = <<RW_MSG_WELCOME>>
        /\ (conn.thr[c] = "accepted" /\ conn'.thr[c] # "accepted"
              /\ conn.first[c] # [type |-> RW_MSG_JOIN, len |-> JoinLen]) =>
             conn'.thr[c] = "closed"
        /\ (conn.thr[c] = "accepted" /\ conn'.thr[c] = "closed") =>
             (conn'.clients = conn.clients /\ conn'.owner = conn.owner)]_vars

\* one client is registered and owner while a connection whose first message
\* was a JOIN of the wrong length has been closed unregistered
C24_Witness ==
  /\ conn.pc = "on"
  /\ \E c, d \in Clients :
       /\ c # d /\ c \in Registered(conn.clients) /\ conn.owner = c
       /\ conn.thr[d] = "closed" /\ conn.first[d] = [type |-> RW_MSG_JOIN, len |-> 0]
       /\ d \notin Registered(conn.clients)

(***************************************************************************)
(* The client's "restart finished simulation" flow (ui_menu.c               *)
(* menu_restart_finished, client_api.c) against the server's handlers and   *)
(* its simulation thread                                                    *)
(***************************************************************************)
\* the largest number of replications the user asks for
MaxMenuReps == 3
\* the requests of the flow, in the order menu_restart_finished makes them
MenuFlow == <<RW_MSG_LOAD_RESULTS, RW_MSG_RESTART_SIM, RW_MSG_SAVE_RESULTS>>
NoSaved == [present |-> FALSE, reps |-> 0, total_reps |-> 0, sim_state |-> 0]

InitMenu ==
  /\ CtlInit /\ env.fds = Clients
  /\ WireIdle
  /\ snap = SnapIdle /\ sid = SidIdle /\ slow = SlowIdle /\ disp = DispIdle
  /\ conn = ConnIdle /\ walk = WalkIdle /\ gen = GenIdle /\ MoreIdle
  /\ \E n \in 1..MaxMenuReps, good \in BOOLEAN :
       menu = [pc |-> "on", step |-> 1, call |-> "idle", resp |-> 0, rc |-> 0,
               new_reps |-> n, load_ok |-> good,
               reqs |-> <<>>, sock |-> <<>>, end_seen |-> 0,
               sim_state |-> RW_WIRE_SIM_LOBBY, total_reps |-> 1, current_rep |-> 0,
               running |-> 0, done |-> 0, saved |-> NoSaved]

MenuRest == <<ctl, wire, wthr, clients_mtx, snap, sid, slow, disp, conn, walk, gen, more>>

\* client_ipc_load_results / client_ipc_restart_sim / client_ipc_save_results:
\* dispatcher_send_and_wait sends the request
MenuSend ==
  /\ menu.pc = "on"
  /\ menu.rc = 0 /\ menu.step <= Len(MenuFlow)
  /\ menu.call = "idle"
  /\ menu' = [menu EXCEPT !.call = "sent", !.reqs = Append(@, MenuFlow[menu.step])]
  /\ UNCHANGED MenuRest

\* the client's handler thread on the server serves the request: LOAD_RESULTS
\* (FINISHED on success), RESTART_SIM (refused while RUNNING, else the
\* simulation thread is started), SAVE_RESULTS (the file is written in any
\* state)
MenuServe ==
  /\ menu.pc = "on"
  /\ menu.reqs # <<>>
  /\ LET t == Head(menu.reqs)
         m == [menu EXCEPT !.reqs = Tail(@)]
     IN menu' =
          IF t = RW_MSG_LOAD_RESULTS
          THEN IF menu.load_ok
               THEN [m EXCEPT !.sim_state = RW_WIRE_SIM_FINISHED, !.sock = Append(@, RW_MSG_ACK)]
               ELSE [m EXCEPT !.sock = Append(@, RW_MSG_ERROR)]
          ELSE IF t = RW_MSG_RESTART_SIM
          THEN IF menu.sim_state = RW_WIRE_SIM_RUNNING \/ menu.running # 0
               THEN [m EXCEPT !.sock = Append(@, RW_MSG_ERROR)]
               ELSE [m EXCEPT !.total_reps = menu.new_reps, !.current_rep = 0, !.done = 0,
                              !.sim_state = RW_WIRE_SIM_RUNNING, !.running = 1,
                              !.sock = Append(@, RW_MSG_ACK)]
          ELSE [m EXCEPT !.saved = [present |-> TRUE, reps |-> menu.done,
                                    total_reps |-> menu.total_reps,
                                    sim_state |-> menu.sim_state],
                         !.sock = Append(@, RW_MSG_ACK)]
  /\ UNCHANGED MenuRest

\* sim_thread_main: one replication is run and aggregated, PROGRESS is sent
MenuSimRep ==
  /\ menu.pc = "on"
  /\ menu.running = 1
  /\ menu.done < menu.total_reps
  /\ menu' = [menu EXCEPT !.done = @ + 1, !.current_rep = menu.done + 1,
                          !.sock = Append(@, RW_MSG_PROGRESS)]
  /\ UNCHANGED MenuRest

\* sim_thread_main after the loop: FINISHED, END is broadcast
MenuSimEnd ==
  /\ menu.pc = "on"
  /\ menu.running = 1
  /\ menu.done = menu.total_reps
  /\ menu' = [menu EXCEPT !.running = 0, !.sim_state = RW_WIRE_SIM_FINISHED,
                          !.sock = Append(@, RW_MSG_END)]
  /\ UNCHANGED MenuRest

\* reader_main: PROGRESS and END are consumed and dropped, a reply is latched
\* for the waiting call
MenuReader ==
  /\ menu.pc = "on"
  /\ menu.sock # <<>>
  /\ LET t == Head(menu.sock)
         m == [menu EXCEPT !.sock = Tail(@)]
     IN menu' = IF t = RW_MSG_PROGRESS THEN m
                ELSE IF t = RW_MSG_END THEN [m EXCEPT !.end_seen = 1]
                ELSE IF menu.call = "sent" THEN [m EXCEPT !.call = "answered", !.resp = t]
                ELSE m
  /\ UNCHANGED MenuRest

\* the call returns: on ACK the menu goes on to its next request without
\* waiting for anything else, on ERROR it returns -1
MenuReturn ==
  /\ menu.pc = "on"
  /\ menu.call = "answered"
  /\ menu' = IF menu.resp = RW_MSG_ACK
             THEN [menu EXCEPT !.call = "idle", !.resp = 0, !.step = @ + 1]
             ELSE [menu EXCEPT !.call = "idle", !.resp = 0, !.rc = -1]
  /\ UNCHANGED MenuRest

NextMenu == MenuSend \/ MenuServe \/ MenuSimRep \/ MenuSimEnd \/ MenuReader \/ MenuReturn

SpecMenu == InitMenu /\ [][NextMenu]_vars

\* C25: SAVE_RESULTS is sent only after the END of the restarted run has
\* arrived at the client, and the file written holds the aggregate of the
\* whole batch.
C25_SaveAfterEnd ==
  [][menu.pc = "on" =>
      /\ (Len(menu'.reqs) > Len(menu.reqs) /\ menu'.reqs[Len(menu'.reqs)] = RW_MSG_SAVE_RESULTS)
            => menu.end_seen = 1
      /\ (~menu.saved.present /\ menu'.saved.present)
            => (menu'.saved.reps = menu'.saved.total_reps
                  /\ menu'.saved.sim_state = RW_WIRE_SIM_FINISHED)]_vars

\* the END frames of a step
EndFrames(o) == {i \in 1..Len(o.frames) : o.frames[i].type = RW_MSG_END}

\* C26: END is broadcast by the step that ends a simulation thread, once per
\* registered client, with the pool destroyed; its
\* reason is 1 only when some free cell has not had all total_reps
\* replications.
C26_EndOncePerRun ==
  [][\A s \in SimIds :
       SendsEnd(s) =>
         /\ pool = ZeroPool
         /\ Cardinality(EndFrames(out')) = Cardinality(Registered(clients))
         /\ \A i \in EndFrames(out') : (out'.frames[i].a = 1) => ~Conserved]_vars

\* the PROGRESS frames of a step
ProgressFrames(o) == {i \in 1..Len(o.frames) : o.frames[i].type = RW_MSG_PROGRESS}

\* C27: a step that broadcasts PROGRESS sends the loop counter of its run
\* and advances that counter by one, and while a run is active current_rep,
\* which STATUS reports, never decreases.
C27_ProgressMonotone ==
  [][/\ \A s \in SimIds :
          (sim[s].pc = "wait" /\ sim'[s].pc # "wait") =>
             /\ sim'[s].rep = sim[s].rep + 1
             /\ \A i \in ProgressFrames(out') : out'.frames[i].a = sim[s].rep
     /\ (SimActive /\ SimActive') => current_rep' >= current_rep]_vars

RECURSIVE SumSeq(_)
SumSeq(q) == IF q = <<>> THEN 0 ELSE Head(q) + SumSeq(Tail(q))

\* the workers of the pool that hold a popped job
Running == IF pool.nthreads = 0 THEN {}
           ELSE {i \in WorkerIds : workers[pool.owner][i].pc = "run"}

\* C28: every accepted job is in the queue or held by exactly one worker
\* (in_flight counts them), a worker that finishes a job adds one trial to
\* the aggregate, worker_pool_wait_all returns only with in_flight = 0, the
\* stop flag is set only with the queue empty and in_flight = 0, and the
\* simulation thread never submits to a stopped pool.
C28_NoJobAbandoned ==
  [][/\ pool'.in_flight = Len(pool'.q) + Cardinality(Running')
     /\ \A s \in SimIds, i \in WorkerIds :
          (workers[s][i].pc = "run" /\ workers'[s][i].pc = "idle") =>
             SumSeq(results'.trials) = SumSeq(results.trials) + 1
     /\ \A s \in SimIds :
          /\ (sim[s].pc = "wait" /\ sim'[s].pc # "wait") => pool.in_flight = 0
          /\ (sim[s].pc = "submit" /\ sim'[s].cur # sim[s].cur) => pool.stop = 0
     /\ (pool.stop = 0 /\ pool'.stop # 0) => (pool.q = <<>> /\ pool.in_flight = 0)]_vars

(***************************************************************************)
(* random_walk.c: random_walk_run, one loop iteration per step.  The step  *)
(* counter and max_steps are uint32_t, held as two 16-bit halves.          *)
(***************************************************************************)
\* the largest small max_steps drawn, and the number of leading iterations
\* of a long walk that are taken one by one
MaxK == 3
UINT32_MAX == U32(65535, 65535)

\* uint32_t ++ and <=
u32_inc(a) == IF a.l = 65535 THEN U32((a.h + 1) % 65536, 0) ELSE U32(a.h, a.l + 1)
u32_leq(a, b) == a.h < b.h \/ (a.h = b.h /\ a.l <= b.l)

WalkWorlds ==
  { [kind |-> WORLD_WRAP, width |-> 3, height |-> 1, obstacles |-> <<0, 0, 0>>],
    [kind |-> WORLD_WRAP, width |-> 2, height |-> 2, obstacles |-> <<0, 0, 0, 0>>],
    [kind |-> WORLD_WRAP, width |-> 3, height |-> 1, obstacles |-> <<0, 1, 0>>],
    [kind |-> WORLD_OBSTACLES, width |-> 2, height |-> 1, obstacles |-> <<0, 0>>],
    [kind |-> WORLD_OBSTACLES, width |-> 3, height |-> 2,
     obstacles |-> <<0, 1, 0, 0, 0, 0>>] }
WalkStarts == [x : -1..3, y : -1..2]
WalkProbs == {Uniform, UpDown, ZeroProbs}
WalkKs == {U32(0, k) : k \in 0..MaxK} \cup {UINT32_MAX}
Origin == [x |-> 0, y |-> 0]
NoOut == [absent |-> TRUE]
WalkOut(steps, reached, success) ==
  [steps |-> steps, reached_origin |-> reached, success_leq_k |-> success]

InitWalk ==
  /\ CtlInit /\ env.fds = Clients
  /\ WireIdle
  /\ snap = SnapIdle /\ sid = SidIdle /\ slow = SlowIdle /\ disp = DispIdle
  /\ conn = ConnIdle /\ menu = MenuIdle /\ gen = GenIdle /\ MoreIdle
  /\ \E w \in WalkWorlds, s \in WalkStarts, pr \in WalkProbs, k \in WalkKs :
       walk = [pc |-> "call", w |-> w, start |-> s, probs |-> pr, max_steps |-> k,
               p |-> s, step |-> U32(0, 0), rs |-> <<>>, hist |-> <<>>,
               long |-> FALSE, wrapped |-> FALSE, out |-> NoOut]

WalkRest == <<ctl, wire, wthr, clients_mtx, snap, sid, slow, disp, conn, menu, gen, more>>

\* the checks before the loop, and step = 1
WalkEnter ==
  /\ walk.pc = "call"
  /\ LET w == walk.w
         s == walk.start
         pr == walk.probs
     IN walk' =
          IF ~world_in_bounds(w, s.x, s.y)
          THEN [walk EXCEPT !.pc = "done", !.out = WalkOut(U32(0, 0), FALSE, FALSE)]
          ELSE IF world_is_obstacle_xy(w, s.x, s.y)
          THEN [walk EXCEPT !.pc = "done", !.out = WalkOut(U32(0, 0), FALSE, FALSE)]
          ELSE IF s.x = 0 /\ s.y = 0
          THEN [walk EXCEPT !.pc = "done", !.out = WalkOut(U32(0, 0), TRUE, TRUE)]
          ELSE IF pr.p_up + pr.p_down + pr.p_left + pr.p_right <= 0
          THEN [walk EXCEPT !.pc = "done", !.out = WalkOut(walk.max_steps, FALSE, FALSE)]
          ELSE [walk EXCEPT !.pc = "loop", !.step = U32(0, 1)]
  /\ UNCHANGED WalkRest

\* one iteration of for (step = 1; step <= max_steps; step++) with draw r.
\* Iterations are taken one by one while step <= MaxK and at step = max_steps.
WalkStep(r) ==
  /\ walk.pc = "loop"
  /\ u32_leq(walk.step, walk.max_steps)
  /\ u32_leq(walk.step, U32(0, MaxK)) \/ walk.step = walk.max_steps
  /\ LET q == walk_step(walk.w, walk.p, walk.probs, r)
         n == u32_inc(walk.step)
         seen == [walk EXCEPT !.p = q,
                              !.rs = IF walk.long THEN @ ELSE Append(@, r),
                              !.hist = IF walk.long THEN @ ELSE Append(@, q)]
     IN walk' =
          IF q.x = 0 /\ q.y = 0
          THEN [seen EXCEPT !.pc = "done", !.out = WalkOut(walk.step, TRUE, TRUE)]
          ELSE [seen EXCEPT !.step = n,
                            !.wrapped = IF n = U32(0, 0) THEN TRUE ELSE @]
  /\ UNCHANGED WalkRest

\* the iterations from step up to max_steps - 1 of a long walk, taken at
\* once: each draws a direction whose move is refused, so p stays
WalkStay ==
  /\ walk.pc = "loop"
  /\ ~u32_leq(walk.max_steps, U32(0, MaxK))
  /\ walk.step # walk.max_steps
  /\ \E r \in Draws : walk_step(walk.w, walk.p, walk.probs, r) = walk.p
  /\ walk' = [walk EXCEPT !.step = walk.max_steps, !.long = TRUE]
  /\ UNCHANGED WalkRest

\* the loop condition fails: *out_steps = max_steps
WalkExhaust ==
  /\ walk.pc = "loop"
  /\ ~u32_leq(walk.step, walk.max_steps)
  /\ walk' = [walk EXCEPT !.pc = "done", !.out = WalkOut(walk.max_steps, FALSE, FALSE)]
  /\ UNCHANGED WalkRest

NextWalk == WalkEnter \/ (\E r \in Draws : WalkStep(r)) \/ WalkStay \/ WalkExhaust

SpecWalk == InitWalk /\ [][NextWalk]_vars

\* a position the walker may occupy
FreeCell(w, p) == world_in_bounds(w, p.x, p.y) /\ ~world_is_obstacle_xy(w, p.x, p.y)

\* C29: random_walk_run returns (0,false,false) for an out-of-bounds or
\* blocked start and (0,true,true) for a start at the origin; otherwise the
\* walker is in bounds and on a free cell after every step, every step counts,
\* no more than K steps are taken, and the result is (s,true,true) with
\* 1 <= s <= K for the first step s that occupies the origin, or
\* (K,false,false) if there is none; reached_origin equals success_leq_k.
C29_WalkResult ==
  (walk.pc # "off") =>
    /\ (walk.pc = "loop") => (FreeCell(walk.w, walk.p) /\ ~walk.wrapped)
    /\ \A i \in 1..Len(walk.hist) : FreeCell(walk.w, walk.hist[i])
    /\ (walk.pc = "loop" /\ ~walk.long) => walk.step = U32(0, Len(walk.hist) + 1)
    /\ (walk.pc = "done") =>
         LET o == walk.out
             K == walk.max_steps
             n == Len(walk.hist)
         IN /\ o.reached_origin = o.success_leq_k
            /\ IF ~FreeCell(walk.w, walk.start)
               THEN o = WalkOut(U32(0, 0), FALSE, FALSE)
               ELSE IF walk.start = Origin
               THEN o = WalkOut(U32(0, 0), TRUE, TRUE)
               ELSE IF o.reached_origin
               THEN /\ ~walk.wrapped
                    /\ u32_leq(U32(0, 1), o.steps) /\ u32_leq(o.steps, K)
                    /\ ~walk.long =>
                         /\ o.steps = U32(0, n)
                         /\ walk.hist[n] = Origin
                         /\ \A j \in 1..(n - 1) : walk.hist[j] # Origin
               ELSE /\ o.steps = K
                    /\ \A j \in 1..n : walk.hist[j] # Origin
                    /\ (walk.probs # ZeroProbs /\ ~walk.long) => K = U32(0, n)
            /\ K.h = 0 =>
                 LET f == random_walk_run(walk.w, walk.start, walk.probs, K.l, walk.rs)
                 IN o = WalkOut(U32(0, f.steps), f.reached_origin, f.success_leq_k)

(***************************************************************************)
(* world.c: world_generate_obstacles with the repair loop of               *)
(* world_enforce_origin_reachability taken step by step.                   *)
(***************************************************************************)
\* the largest width and height drawn
MaxSide == 3
GenPercents == {-5, 0, 30, 50, 70, 100, 150}
GenSeeds == {CreateSeed, U32(0, 1), U32(0, 2), U32(1, 0), U32(65535, 65535)}

InitGen ==
  /\ CtlInit /\ env.fds = Clients
  /\ WireIdle
  /\ snap = SnapIdle /\ sid = SidIdle /\ slow = SlowIdle /\ disp = DispIdle
  /\ conn = ConnIdle /\ menu = MenuIdle /\ walk = WalkIdle /\ MoreIdle
  /\ \E width \in 1..MaxSide, height \in 1..MaxSide,
        pct \in GenPercents, sd \in GenSeeds :
       gen = [pc |-> "call", w |-> world_init(WORLD_OBSTACLES, width, height),
              percent |-> pct, seed |-> sd, reachable |-> {}]

GenRest == <<ctl, wire, wthr, clients_mtx, snap, sid, slow, disp, conn, menu, walk, more>>

\* the free cells the last flood fill did not mark
Unreached(g) ==
  {i \in 0..(world_cell_count(g.w) - 1) : g.w.obstacles[i + 1] = 0 /\ i \notin g.reachable}

\* clamp percent, fill every cell from the generator, free the origin
GenFill ==
  /\ gen.pc = "call"
  /\ LET pct == IF gen.percent < 0 THEN 0
                ELSE IF gen.percent > 100 THEN 100 ELSE gen.percent
         n == world_cell_count(gen.w)
         filled == lcg_fill(n, 0, gen.seed, pct)
     IN gen' = [gen EXCEPT !.pc = "enforce",
                           !.w.obstacles = [j \in 1..n |-> IF j = 1 THEN 0 ELSE filled[j]]]
  /\ UNCHANGED GenRest

\* world_enforce_origin_reachability: malloc of reachable and queue; when
\* either fails the function returns and the map stays as filled
GenAlloc(ok) ==
  /\ gen.pc = "enforce"
  /\ gen' = [gen EXCEPT !.pc = IF ok THEN "flood" ELSE "done"]
  /\ UNCHANGED GenRest

\* world_mark_reachable
GenFlood ==
  /\ gen.pc = "flood"
  /\ gen' = [gen EXCEPT !.pc = "scan", !.reachable = world_mark_reachable(gen.w)]
  /\ UNCHANGED GenRest

\* the scan finds the first free cell that is not marked and carves from it
GenCarve ==
  /\ gen.pc = "scan"
  /\ Unreached(gen) # {}
  /\ LET i == CHOOSE c \in Unreached(gen) : \A d \in Unreached(gen) : c <= d
     IN gen' = [gen EXCEPT !.pc = "flood",
                           !.w = world_carve_path_to_origin(gen.w, i)]
  /\ UNCHANGED GenRest

\* the scan finds none: fixed_any = 0 ends the loop
GenReturn ==
  /\ gen.pc = "scan"
  /\ Unreached(gen) = {}
  /\ gen' = [gen EXCEPT !.pc = "done"]
  /\ UNCHANGED GenRest

NextGen == GenFill \/ (\E ok \in BOOLEAN : GenAlloc(ok)) \/ GenFlood \/ GenCarve \/ GenReturn

SpecGen == InitGen /\ [][NextGen]_vars

\* the number of blocked cells of a map
Blocked(w) == Cardinality({j \in DOMAIN w.obstacles : w.obstacles[j] # 0})

\* the free cells of w
FreeCells(w) == {i \in 0..(world_cell_count(w) - 1) : w.obstacles[i + 1] = 0}

\* C30: world_generate_obstacles returns with the origin free and every free
\* cell reachable from the origin by 4-connected moves through free cells;
\* a carve only clears cells and clears at least one (so the repair loop
\* ends); the map returned is the one the inputs (W, H, seed, percent)
\* determine.
C30_GeneratedMapConnected ==
  [][/\ (gen.pc # "off" /\ gen.pc # "done" /\ gen'.pc = "done") =>
          /\ gen'.w.obstacles[1] = 0
          /\ FreeCells(gen'.w) \subseteq Flood(gen'.w, {0})
          /\ gen'.w = world_generate_obstacles(
                        world_init(WORLD_OBSTACLES, gen.w.width, gen.w.height),
                        gen.percent, gen.seed)
     /\ (gen.pc = "scan" /\ gen'.pc = "flood") =>
          /\ \A j \in DOMAIN gen.w.obstacles :
               (gen.w.obstacles[j] = 0) => (gen'.w.obstacles[j] = 0)
          /\ Blocked(gen'.w) < Blocked(gen.w)]_vars

(***************************************************************************)
(* server_context.c: state_mtx and clients_mtx.  Every thread of the       *)
(* server is the sequence of lock operations, accesses to the context and  *)
(* socket operations that its code performs, one step at a time.           *)
(***************************************************************************)
\* two client handler threads and the simulation thread
LkHandlers == {1, 2}
LkSim == 3
LkThreads == LkHandlers \cup {LkSim}

\* server_context_get_* / server_context_set_* / server_context_client_can_control
state_accessor == <<"lock_state", "field", "unlock_state">>

\* server_context_add_client / server_context_remove_client
registry_update == <<"lock_clients", "slots", "unlock_clients">>

\* server_context_for_each_client with a callback that reads the progress
\* through server_context_get_progress before it writes
for_each_client_reading_state ==
  <<"lock_clients">> \o state_accessor \o <<"write", "unlock_clients">>

\* server_context_for_each_client: the callback writes to each slot's socket
for_each_client ==
  <<"lock_clients">> \o [i \in 1..NSlots |-> "write"] \o <<"unlock_clients">>

\* what a client thread runs between two reads of its socket
HandlerPrograms ==
  { \* handle_join, server_context_add_client, owner test and assignment
    <<"read", "write">> \o registry_update \o state_accessor \o state_accessor,
    \* SET_GLOBAL_MODE
    <<"read">> \o state_accessor \o for_each_client,
    \* QUERY_STATUS
    <<"read">> \o state_accessor \o state_accessor \o state_accessor
               \o state_accessor \o state_accessor \o <<"write">>,
    \* CREATE_SIM
    <<"read">> \o state_accessor \o state_accessor \o state_accessor
               \o state_accessor \o state_accessor \o <<"write">>,
    \* START_SIM refused
    <<"read">> \o state_accessor \o state_accessor \o <<"write">>,
    \* REQUEST_SNAPSHOT
    <<"read">> \o for_each_client \o <<"write">>,
    \* the end of the thread
    registry_update \o state_accessor \o state_accessor }

\* sim_thread_main with one replication
SimProgram ==
  state_accessor \o state_accessor \o state_accessor \o for_each_client
                 \o state_accessor \o for_each_client

InitLk ==
  /\ CtlInit /\ env.fds = Clients
  /\ WireIdle
  /\ snap = SnapIdle /\ sid = SidIdle /\ slow = SlowIdle /\ disp = DispIdle
  /\ conn = ConnIdle /\ menu = MenuIdle /\ walk = WalkIdle /\ gen = GenIdle
  /\ ring = RingIdle /\ iso = IsoIdle /\ launch = StIdle
  /\ \E h \in [LkHandlers -> HandlerPrograms] :
       lk = [pc |-> "on", state_mtx |-> 0, clients_mtx |-> 0,
             prog |-> [t \in LkThreads |-> IF t = LkSim THEN SimProgram ELSE h[t]]]

LkRest == <<ctl, wire, wthr, clients_mtx, snap, sid, slow, disp, conn, menu, walk, gen,
            ring, iso, launch>>

\* the operation thread t is at
LkAt(t) == IF lk.prog[t] = <<>> THEN "end" ELSE Head(lk.prog[t])

\* pthread_mutex_lock
LkLock(t) ==
  /\ lk.pc = "on"
  /\ \/ /\ LkAt(t) = "lock_state" /\ lk.state_mtx = 0
        /\ lk' = [lk EXCEPT !.state_mtx = t, !.prog[t] = Tail(@)]
     \/ /\ LkAt(t) = "lock_clients" /\ lk.clients_mtx = 0
        /\ lk' = [lk EXCEPT !.clients_mtx = t, !.prog[t] = Tail(@)]
  /\ UNCHANGED LkRest

\* pthread_mutex_unlock
LkUnlock(t) ==
  /\ lk.pc = "on"
  /\ \/ /\ LkAt(t) = "unlock_state"
        /\ lk' = [lk EXCEPT !.state_mtx = 0, !.prog[t] = Tail(@)]
     \/ /\ LkAt(t) = "unlock_clients"
        /\ lk' = [lk EXCEPT !.clients_mtx = 0, !.prog[t] = Tail(@)]
  /\ UNCHANGED LkRest

\* a read or write of a field of the context or of the slot array
LkAccess(t) ==
  /\ lk.pc = "on"
  /\ LkAt(t) \in {"field", "slots"}
  /\ lk' = [lk EXCEPT !.prog[t] = Tail(@)]
  /\ UNCHANGED LkRest

\* rw_recv_hdr / rw_recv_payload / rw_send_msg on a client socket
LkIo(t) ==
  /\ lk.pc = "on"
  /\ LkAt(t) \in {"read", "write"}
  /\ lk' = [lk EXCEPT !.prog[t] = Tail(@)]
  /\ UNCHANGED LkRest

NextLk == \E t \in LkThreads : LkLock(t) \/ LkUnlock(t) \/ LkAccess(t) \/ LkIo(t)

SpecLk == InitLk /\ [][NextLk]_vars

\* C31: no thread holds state_mtx and clients_mtx at the same time, no thread
\* that holds one of them asks for the other, and no thread is in a socket
\* read or write while it holds state_mtx.
C31_LocksNeverNested ==
  (lk.pc = "on") =>
    \A t \in LkThreads :
      /\ ~(lk.state_mtx = t /\ lk.clients_mtx = t)
      /\ (LkAt(t) = "lock_state") => lk.clients_mtx # t
      /\ (LkAt(t) = "lock_clients") => lk.state_mtx # t
      /\ (LkAt(t) \in {"read", "write"}) => lk.state_mtx # t

\* the simulation thread writes to a client under clients_mtx while a handler
\* holds state_mtx inside an accessor
C31_Witness ==
  /\ lk.pc = "on"
  /\ lk.clients_mtx = LkSim /\ LkAt(LkSim) = "write"
  /\ \E h \in LkHandlers : lk.state_mtx = h /\ LkAt(h) = "field"

(***************************************************************************)
(* START_SIM / RESTART_SIM and sim_manager_start: the handler's checks,    *)
(* pthread_create, and the first and last statements of the thread.        *)
(***************************************************************************)
\* START_SIM and RESTART_SIM requests the owner sends in one behaviour
MaxStarts == 3
\* simulation threads that pthread_create may have made and not yet ended
MaxStThreads == 2
StThreads == 1..MaxStThreads
StReqs == {[type |-> RW_MSG_START_SIM, total_reps |-> 0],
           [type |-> RW_MSG_RESTART_SIM, total_reps |-> 0],
           [type |-> RW_MSG_RESTART_SIM, total_reps |-> 2]}

InitSt ==
  /\ CtlInit /\ env.fds = Clients
  /\ WireIdle
  /\ snap = SnapIdle /\ sid = SidIdle /\ slow = SlowIdle /\ disp = DispIdle
  /\ conn = ConnIdle /\ menu = MenuIdle /\ walk = WalkIdle /\ gen = GenIdle
  /\ lk = LkIdle /\ ring = RingIdle /\ iso = IsoIdle
  /\ \E s0 \in {RW_WIRE_SIM_LOBBY, RW_WIRE_SIM_FINISHED} :
       launch = [pc |-> "loop", sim_state |-> s0, running |-> 0, total_reps |-> 1,
             thr |-> [t \in StThreads |-> "none"], req |-> [type |-> 0, total_reps |-> 0],
             nreq |-> 0, reply |-> 0]

StRest == <<ctl, wire, wthr, clients_mtx, snap, sid, slow, disp, conn, menu, walk, gen,
            lk, ring, iso>>

\* the owner's handler reads START_SIM or RESTART_SIM and tests sim_state
\* (and, for RESTART_SIM, total_reps); reply is the ERROR code sent, if any
StRecv(r) ==
  /\ launch.pc = "loop"
  /\ launch.nreq < MaxStarts
  /\ launch' = IF launch.sim_state = RW_WIRE_SIM_RUNNING
           THEN [launch EXCEPT !.nreq = @ + 1, !.reply = 2]
           ELSE IF r.type = RW_MSG_RESTART_SIM /\ r.total_reps = 0
           THEN [launch EXCEPT !.nreq = @ + 1, !.reply = 3]
           ELSE [launch EXCEPT !.nreq = @ + 1, !.reply = 0, !.req = r, !.pc = "start"]
  /\ UNCHANGED StRest

\* sim_manager_start / sim_manager_restart: the sm->running test, the reset
\* of RESTART_SIM, pthread_create, and the ACK (reply RW_MSG_ACK)
StCreate ==
  /\ launch.pc = "start"
  /\ IF launch.running # 0
     THEN launch' = [launch EXCEPT !.pc = "loop", !.reply = 10]
     ELSE \E t \in StThreads :
            /\ launch.thr[t] = "none"
            /\ \A u \in StThreads : u < t => launch.thr[u] # "none"
            /\ launch' = [launch EXCEPT
                 !.pc = "loop", !.reply = RW_MSG_ACK, !.thr[t] = "created",
                 !.total_reps = IF launch.req.type = RW_MSG_RESTART_SIM
                                THEN launch.req.total_reps ELSE @,
                 !.sim_state = IF launch.req.type = RW_MSG_RESTART_SIM
                               THEN RW_WIRE_SIM_LOBBY ELSE @]
  /\ UNCHANGED StRest

\* sim_thread_main: sm->running = 1, sim_state = RUNNING
StThreadBegin(t) ==
  /\ launch.pc # "off"
  /\ launch.thr[t] = "created"
  /\ launch' = [launch EXCEPT !.thr[t] = "run", !.running = 1,
                      !.sim_state = RW_WIRE_SIM_RUNNING]
  /\ UNCHANGED StRest

\* sim_thread_main after the loop: sm->running = 0, sim_state = FINISHED
StThreadFinish(t) ==
  /\ launch.pc # "off"
  /\ launch.thr[t] = "run"
  /\ launch' = [launch EXCEPT !.thr[t] = "end", !.running = 0,
                      !.sim_state = RW_WIRE_SIM_FINISHED]
  /\ UNCHANGED StRest

\* on_end and the return of the thread
StThreadEnd(t) ==
  /\ launch.pc # "off"
  /\ launch.thr[t] = "end"
  /\ launch' = [launch EXCEPT !.thr[t] = "none"]
  /\ UNCHANGED StRest

NextSt ==
  \/ \E r \in StReqs : StRecv(r)
  \/ StCreate
  \/ \E t \in StThreads : StThreadBegin(t) \/ StThreadFinish(t) \/ StThreadEnd(t)

SpecSt == InitSt /\ [][NextSt]_vars

\* the simulation threads that exist
StLive == {t \in StThreads : launch.thr[t] # "none"}

\* C32: at most one simulation thread exists at any time, and after an
\* acknowledged START_SIM or RESTART_SIM no further one is acknowledged
\* before the run it started has reached FINISHED.
C32_OneSimThread ==
  (launch.pc # "off") => Cardinality(StLive) <= 1

\* C33: when the simulation thread advances current_rep to r and broadcasts
\* PROGRESS(r), every non-blocked cell has at least r trajectories
\* aggregated, also when the run was stopped by STOP_SIM.
C33_ProgressCountsComplete ==
  [][\A s \in SimIds :
       (sim[s].pc = "wait" /\ sim'[s].pc # "wait") =>
          /\ current_rep' = sim[s].rep
          /\ \A i \in 0..(world_cell_count(world) - 1) :
               ~world_is_obstacle_idx(world, i) =>
                  /\ i + 1 \in DOMAIN results.trials
                  /\ results.trials[i + 1] >= sim[s].rep]_vars

\* C34: a call that returns 0 hands over the reply to the request it sent
\* itself; the reply to a request whose call timed out is never handed to
\* another call.
C34_LateReplyDropped ==
  disp.pc = "on" =>
    \A k \in Callers :
      (disp.thr[k].pc = "ret" /\ disp.thr[k].rc = 0) =>
         \A j \in Callers :
            (j # k /\ disp.thr[j].pc = "ret" /\ disp.thr[j].why = "timeout") =>
               disp.thr[k].out_hdr.id # disp.thr[j].id

\* C37: an allocation failure of the reader fails at most the request that is
\* in flight: a call that sends its request after the failure, with the
\* reader still running, does not return -1 for the reader's error before a
\* reply could arrive.
C37_TransientFailureIsLocal ==
  [][disp.pc = "on" =>
      \A k \in Callers :
        (disp.thr[k].pc = "lock" /\ disp'.thr[k].pc = "ret" /\ disp'.thr[k].why = "error") =>
           ~(disp.last_err = ENOMEM /\ disp.running = 1 /\ disp.rdr = "loop")]_vars

\* the last step answered client c's QUERY_STATUS with can_control = 1
ToldMayControl(c) ==
  /\ out.by = c /\ out.re = RW_MSG_QUERY_STATUS
  /\ \E i \in 1..Len(out.frames) :
        out.frames[i].type = RW_MSG_STATUS /\ out.frames[i].can_control = 1

\* C35: control is stable: a connected client whose STATUS has just reported
\* can_control = 1 still passes the capability check after any step of
\* another thread, as long as its own thread is in its request loop.
C35_ControlStable ==
  [][\A c \in Clients :
       (ToldMayControl(c) /\ pc[c] = "loop" /\ pc'[c] = "loop") => CanControl(c)']_vars

\* simulation thread s is between its set_sim_state(RUNNING) and its
\* set_sim_state(FINISHED)
InRun(s) == sim[s].pc \in {"submit", "wait", "join"}

\* C38: sim_state is RUNNING only while a simulation thread is between its
\* start and its set_sim_state(FINISHED); only the start of a thread makes
\* it RUNNING; and when the END of a run is broadcast, sim_state is not
\* RUNNING unless another thread is running, so the STATUS a client gets
\* after END never reports RUNNING for the run that ended.
C38_FinishedBeforeEnd ==
  [][/\ sim_state' = RW_WIRE_SIM_RUNNING => \E s \in SimIds : InRun(s)'
     /\ (sim_state # RW_WIRE_SIM_RUNNING /\ sim_state' = RW_WIRE_SIM_RUNNING)
           => \E s \in SimIds : sim[s].pc = "created" /\ sim'[s].pc # "created"
     /\ \A s \in SimIds :
          (SendsEnd(s)
             /\ (sim_state = RW_WIRE_SIM_RUNNING \/ sim_state' = RW_WIRE_SIM_RUNNING))
            => \E o \in SimIds \ {s} : InRun(o)]_vars

\* END has just been broadcast to a registered client at the end of a run
\* that completed a replication, and sim_state is FINISHED
C38_Witness ==
  /\ out.frames # <<>>
  /\ \A i \in 1..Len(out.frames) : out.frames[i].type = RW_MSG_END
  /\ sim_state = RW_WIRE_SIM_FINISHED
  /\ current_rep >= 1
  /\ \A s \in SimIds : sim[s].pc = "none"

(***************************************************************************)
(* worker_pool.c: the job queue as a ring buffer                           *)
(***************************************************************************)
\* jobs one simulation thread submits to a pool
MaxRingJobs == 19
RingJobs == 1..MaxRingJobs
\* the pool's worker threads: 1 and 2 are created by the simulation thread's
\* worker_pool_init, 3 by the worker_pool_init of a second simulation thread
RingWorkers == {1, 2, 3}
FirstWorkers == {1, 2}
\* jobs submitted in a run during which a second simulation thread starts
MaxRaceJobs == 3
\* the runs: the jobs submitted, and the simulation threads that use the pool
RingRuns == {[jobs |-> MaxRingJobs, threads |-> 1], [jobs |-> MaxRaceJobs, threads |-> 2]}
\* queue_capacity as passed to worker_pool_init
RingCaps == {1, 17}

\* worker_pool_init: memset, q_cap at least 16, the workers are created
ring_init(queue_capacity) ==
  LET cap == IF queue_capacity < MinQueueCap THEN MinQueueCap ELSE queue_capacity
  IN [pc |-> "on", q_cap |-> cap, q |-> [i \in 0..(cap - 1) |-> 0],
      q_head |-> 0, q_tail |-> 0, q_count |-> 0, in_flight |-> 0, stop |-> 0,
      sub |-> [pc |-> "call", next |-> 1, rc |-> 0],
      wk |-> [w \in RingWorkers |->
                IF w \in FirstWorkers THEN "wait" ELSE "none"],
      inits |-> 1, pushed |-> <<>>, popped |-> <<>>]

InitRing ==
  /\ CtlInit /\ env.fds = Clients
  /\ WireIdle
  /\ snap = SnapIdle /\ sid = SidIdle /\ slow = SlowIdle /\ disp = DispIdle
  /\ conn = ConnIdle /\ menu = MenuIdle /\ walk = WalkIdle /\ gen = GenIdle
  /\ lk = LkIdle /\ iso = IsoIdle /\ launch = StIdle
  /\ \E c \in RingCaps, r \in RingRuns : ring = ring_init(c) @@ r

RingRest == <<ctl, wire, wthr, clients_mtx, snap, sid, slow, disp, conn, menu, walk, gen,
              lk, iso, launch>>

\* queue_push: the pool after the push (unchanged when the queue is full)
queue_push(p, job) ==
  IF p.q_count >= p.q_cap THEN p
  ELSE [p EXCEPT !.q[p.q_tail] = job,
                 !.q_tail = (p.q_tail + 1) % p.q_cap,
                 !.q_count = @ + 1]

\* queue_pop: the pool after the pop; the job taken is p.q[p.q_head]
queue_pop(p) ==
  IF p.q_count = 0 THEN p
  ELSE [p EXCEPT !.q_head = (p.q_head + 1) % p.q_cap,
                 !.q_count = @ - 1]

\* worker_pool_submit under the mutex, from its entry ("call") or from the
\* loop test after a yield ("retry"): -1 when stopped, a yield when the queue
\* is full, else queue_push, in_flight++, signal
RingSubmit ==
  /\ ring.pc = "on"
  /\ ring.sub.pc \in {"call", "retry"}
  /\ ring.sub.next \in RingJobs /\ ring.sub.next <= ring.jobs
  /\ LET job == ring.sub.next
     IN ring' =
          IF ring.stop # 0
          THEN [ring EXCEPT !.sub = [pc |-> "call", next |-> job + 1, rc |-> -1]]
          ELSE IF ring.q_count >= ring.q_cap
          THEN [ring EXCEPT !.sub.pc = "yield"]
          ELSE [queue_push(ring, job) EXCEPT
                  !.in_flight = @ + 1,
                  !.pushed = Append(@, job),
                  !.sub = [pc |-> "call", next |-> job + 1, rc |-> 0]]
  /\ UNCHANGED RingRest

\* sched_yield returns and the mutex is taken again: the loop test is next
RingYield ==
  /\ ring.pc = "on"
  /\ ring.sub.pc = "yield"
  /\ ring' = [ring EXCEPT !.sub.pc = "retry"]
  /\ UNCHANGED RingRest

\* worker_pool_wait_all returns (in_flight is 0), then worker_pool_stop
RingStop ==
  /\ ring.pc = "on"
  /\ ring.sub.pc = "call"
  /\ ring.in_flight = 0
  /\ ring' = [ring EXCEPT !.stop = 1, !.sub.pc = "stopped"]
  /\ UNCHANGED RingRest

\* sim_thread_main of a second simulation thread on the same sim_manager
\* (two START_SIM accepted before the first thread set sm->running): its
\* worker_pool_init on the pool in use. The memset and the assignments are
\* not under the pool's mutex: each of q_count and in_flight is either
\* zeroed or keeps the value a racing critical section wrote back; the
\* queue array is a new allocation; one more worker is created.
RingReinit ==
  /\ ring.pc = "on"
  /\ ring.threads = 2 /\ ring.inits = 1
  /\ ring.sub.pc # "stopped"
  /\ \E kc, kf \in BOOLEAN :
       ring' = [ring EXCEPT
                  !.q = [i \in 0..(ring.q_cap - 1) |-> 0],
                  !.q_head = 0, !.q_tail = 0, !.stop = 0,
                  !.q_count = IF kc THEN @ ELSE 0,
                  !.in_flight = IF kf THEN @ ELSE 0,
                  !.wk = [w \in RingWorkers |->
                            IF w \in FirstWorkers THEN ring.wk[w]
                            ELSE "wait"],
                  !.inits = 2]
  /\ UNCHANGED RingRest

\* worker_main: the wait on cv_nonempty ends with a job queued; queue_pop
\* (the job taken is recorded in popped)
RingPop(w) ==
  /\ ring.pc = "on"
  /\ ring.wk[w] = "wait"
  /\ ring.stop = 0
  /\ ring.q_count > 0
  /\ ring' = [queue_pop(ring) EXCEPT
                !.wk[w] = "run",
                !.popped = Append(@, ring.q[ring.q_head])]
  /\ UNCHANGED RingRest

\* worker_main: the walk is run, its result recorded; job_done under the mutex
RingDone(w) ==
  /\ ring.pc = "on"
  /\ ring.wk[w] = "run"
  /\ ring' = [job_done(ring) EXCEPT !.wk[w] = "wait"]
  /\ UNCHANGED RingRest

\* worker_main: if (p->stop) break
RingExit(w) ==
  /\ ring.pc = "on"
  /\ ring.wk[w] = "wait"
  /\ ring.stop # 0
  /\ ring' = [ring EXCEPT !.wk[w] = "exited"]
  /\ UNCHANGED RingRest

NextRing ==
  \/ RingSubmit
  \/ RingYield
  \/ RingStop
  \/ RingReinit
  \/ \E w \in RingWorkers : RingPop(w) \/ RingDone(w) \/ RingExit(w)

SpecRing == InitRing /\ [][NextRing]_vars

\* the workers that have popped a job and not yet called job_done
Popped == {w \in RingWorkers : ring.wk[w] = "run"}

\* C36: the pool's accounting: 0 <= q_count <= q_cap, q_tail is
\* (q_head + q_count) mod q_cap, in_flight is q_count plus the workers that
\* hold a job; the jobs are popped in the order of their submission, the
\* queue holds the submitted jobs not yet popped in that order, and a submit
\* on a full queue yields and retries until the job is queued.
C36_PoolAccounting ==
  ring.pc = "on" =>
    /\ 0 <= ring.q_count /\ ring.q_count <= ring.q_cap
    /\ ring.q_tail = (ring.q_head + ring.q_count) % ring.q_cap
    /\ ring.in_flight = ring.q_count + Cardinality(Popped)
    /\ Len(ring.popped) <= Len(ring.pushed)
    /\ ring.popped = SubSeq(ring.pushed, 1, Len(ring.popped))
    /\ Len(ring.pushed) = Len(ring.popped) + ring.q_count
    /\ \A i \in 0..(ring.q_count - 1) :
          ring.q[(ring.q_head + i) % ring.q_cap] = ring.pushed[Len(ring.popped) + 1 + i]
    /\ ring.stop = 0 => ring.pushed = [i \in 1..(ring.sub.next - 1) |-> i]

(***************************************************************************)
(* snapshot_sender.c: two snapshot broadcasts at once.  Both clients are    *)
(* registered and both send REQUEST_SNAPSHOT; the handler thread of each    *)
(* runs snapshot_broadcast and then acknowledges the request.               *)
(***************************************************************************)
\* the handler threads, named by the fd they serve
IsoThreads == {1, 2}
\* ctx->clients.fds in slot order
IsoFds == <<1, 2>>

\* the rw_write_all calls of send_snapshot_to_client with one chunk: header
\* and payload of BEGIN, header and payload of a CHUNK, header of END
snapshot_units(t, id) ==
  <<[part |-> "hdr", type |-> RW_MSG_SNAPSHOT_BEGIN, payload_len |-> 24, by |-> t, id |-> 0],
    [part |-> "payload", type |-> RW_MSG_SNAPSHOT_BEGIN, payload_len |-> 24, by |-> t, id |-> id],
    [part |-> "hdr", type |-> RW_MSG_SNAPSHOT_CHUNK, payload_len |-> 16, by |-> t, id |-> 0],
    [part |-> "payload", type |-> RW_MSG_SNAPSHOT_CHUNK, payload_len |-> 16, by |-> t, id |-> id],
    [part |-> "hdr", type |-> RW_MSG_SNAPSHOT_END, payload_len |-> 0, by |-> t, id |-> 0]>>

\* the rw_write_all calls of send_ack
ack_units(t) ==
  <<[part |-> "hdr", type |-> RW_MSG_ACK, payload_len |-> 4, by |-> t, id |-> 0],
    [part |-> "payload", type |-> RW_MSG_ACK, payload_len |-> 4, by |-> t, id |-> 0]>>

InitIso ==
  /\ CtlInit /\ env.fds = Clients
  /\ WireIdle
  /\ snap = SnapIdle /\ sid = SidIdle /\ slow = SlowIdle /\ disp = DispIdle
  /\ conn = ConnIdle /\ menu = MenuIdle /\ walk = WalkIdle /\ gen = GenIdle
  /\ lk = LkIdle /\ ring = RingIdle /\ launch = StIdle
  /\ iso = [pc |-> "on", mtx |-> 0, counter |-> 1,
            thr |-> [t \in IsoThreads |-> [pc |-> "idle", id |-> 0, k |-> 1, u |-> 1]],
            sock |-> [c \in Clients |-> <<>>]]

IsoRest == <<ctl, wire, wthr, clients_mtx, snap, sid, slow, disp, conn, menu, walk, gen,
             lk, ring, launch>>

\* REQUEST_SNAPSHOT is read; snapshot_broadcast: next_snapshot_id reads the
\* counter (counter++ is not synchronised: the read and the write are two steps)
IsoRequest(t) ==
  /\ iso.pc = "on"
  /\ iso.thr[t].pc = "idle"
  /\ iso' = [iso EXCEPT !.thr[t].pc = "store", !.thr[t].id = iso.counter]
  /\ UNCHANGED IsoRest

\* next_snapshot_id writes the counter back
IsoStore(t) ==
  /\ iso.pc = "on"
  /\ iso.thr[t].pc = "store"
  /\ iso' = [iso EXCEPT !.thr[t].pc = "lock", !.counter = iso.thr[t].id + 1]
  /\ UNCHANGED IsoRest

\* server_context_for_each_client: pthread_mutex_lock(&ctx->clients_mtx)
IsoLock(t) ==
  /\ iso.pc = "on"
  /\ iso.thr[t].pc = "lock"
  /\ iso.mtx = 0
  /\ iso' = [iso EXCEPT !.mtx = t, !.thr[t].pc = "stream", !.thr[t].k = 1, !.thr[t].u = 1]
  /\ UNCHANGED IsoRest

\* broadcast_cb, send_snapshot_to_client: the next rw_write_all to the
\* current client; after END the loop goes on to the next slot
IsoWrite(t) ==
  /\ iso.pc = "on"
  /\ iso.thr[t].pc = "stream"
  /\ LET h == iso.thr[t]
         us == snapshot_units(t, h.id)
         fd == IsoFds[h.k]
     IN iso' = [iso EXCEPT
                  !.sock[fd] = Append(@, us[h.u]),
                  !.thr[t] = IF h.u < Len(us) THEN [h EXCEPT !.u = @ + 1]
                             ELSE IF h.k < Len(IsoFds) THEN [h EXCEPT !.k = @ + 1, !.u = 1]
                             ELSE [h EXCEPT !.pc = "unlock"]]
  /\ UNCHANGED IsoRest

\* server_context_for_each_client: pthread_mutex_unlock(&ctx->clients_mtx)
IsoUnlock(t) ==
  /\ iso.pc = "on"
  /\ iso.thr[t].pc = "unlock"
  /\ iso' = [iso EXCEPT !.mtx = 0, !.thr[t].pc = "ack", !.thr[t].u = 1]
  /\ UNCHANGED IsoRest

\* send_ack(client_fd, RW_MSG_REQUEST_SNAPSHOT, 0): the next rw_write_all
IsoAck(t) ==
  /\ iso.pc = "on"
  /\ iso.thr[t].pc = "ack"
  /\ LET h == iso.thr[t]
         us == ack_units(t)
     IN iso' = [iso EXCEPT
                  !.sock[t] = Append(@, us[h.u]),
                  !.thr[t] = IF h.u < Len(us) THEN [h EXCEPT !.u = @ + 1]
                             ELSE [h EXCEPT !.pc = "done"]]
  /\ UNCHANGED IsoRest

NextIso ==
  \E t \in IsoThreads :
    IsoRequest(t) \/ IsoStore(t) \/ IsoLock(t) \/ IsoWrite(t) \/ IsoUnlock(t) \/ IsoAck(t)

SpecIso == InitIso /\ [][NextIso]_vars

\* what the client's rw_recv_hdr and rw_recv_payload make of a socket's
\* stream: each header takes the bytes that follow it as its payload, and a
\* message whose payload has not arrived is not received yet.  A snapshot_id
\* read from bytes of another frame is 0 here (the ids sent start at 1).
RECURSIVE IsoReceived(_)
IsoReceived(stream) ==
  IF stream = <<>> THEN <<>>
  ELSE LET h == Head(stream) IN
    IF h.part # "hdr"
    THEN <<[type |-> 0, snapshot_id |-> 0]>> \o IsoReceived(Tail(stream))
    ELSE IF h.payload_len = 0
    THEN <<[type |-> h.type, snapshot_id |-> 0]>> \o IsoReceived(Tail(stream))
    ELSE IF Len(stream) = 1 THEN <<>>
    ELSE LET p == stream[2] IN
      <<[type |-> h.type,
         snapshot_id |-> IF p.part = "payload" /\ p.type = h.type /\ p.by = h.by
                         THEN p.id ELSE 0]>>
        \o IsoReceived(Tail(Tail(stream)))

\* C39: on every client socket the messages received after a SNAPSHOT_BEGIN
\* and up to the next SNAPSHOT_END hold no other SNAPSHOT_BEGIN, and every
\* SNAPSHOT_CHUNK among them carries the snapshot_id of that BEGIN.
C39_StreamsIsolated ==
  iso.pc = "on" =>
    \A c \in Clients :
      LET m == IsoReceived(iso.sock[c]) IN
      \A i \in 1..Len(m) : \A k \in (i + 1)..Len(m) :
        (/\ m[i].type = RW_MSG_SNAPSHOT_BEGIN
         /\ \A j \in (i + 1)..(k - 1) :
              m[j].type \notin {RW_MSG_SNAPSHOT_BEGIN, RW_MSG_SNAPSHOT_END})
          => /\ m[k].type # RW_MSG_SNAPSHOT_BEGIN
             /\ m[k].type = RW_MSG_SNAPSHOT_CHUNK => m[k].snapshot_id = m[i].snapshot_id

====
